---- MODULE Spec2Model ----
(***************************************************************************)
(* A model of the event-catalog pipeline: the deduplicating upsert layer   *)
(* (db.py), the response decoder and the language-model wrapper            *)
(* (parser.py, ein_enrichment.py), the multi-provider search client and    *)
(* the EIN locator (ein_enrichment.py) and the link-processing loop        *)
(* (parser.py).                                                            *)
(*                                                                         *)
(* Python values are modelled as sequences of one-character strings; the   *)
(* JSON values that are not strings (null, 0, false, []) are distinguished *)
(* one-element sequences, so that str(), strip(), lower() and truthiness   *)
(* are computed the way Python computes them.                              *)
(***************************************************************************)
EXTENDS Integers, Sequences, FiniteSets, TLC

VARIABLES
    organizers,   \* db: rows of table organizers
    events,       \* db: rows of table events
    orgCalls,     \* history of insert_organizer calls: [data, ret]
    evCalls,      \* history of insert_event calls: [data, organizer_id, stored]
    failedCalls,  \* number of upsert calls the store refused (they returned None)
    rpc,          \* race: each concurrent caller's position in insert_organizer
    rdata,        \* race: each caller's record
    rret,         \* race: each caller's returned organizer id
    rtx,          \* race: each caller's open transaction
    rorder,       \* race: callers in the order their INSERT reached the store
    jtext,        \* decoder: the completion text given to safe_json
    jpc,          \* decoder: "call" before safe_json runs, "returned" after
    jresult,      \* decoder: what safe_json returned
    gpc,          \* gpt_call: "loop" while attempts go on, "done" once it returned
    gattempt,     \* gpt_call: the loop variable attempt
    ghist,        \* gpt_call: what each language-model call produced
    gsleeps,      \* gpt_call: the time.sleep calls made, in order
    gret,         \* gpt_call: the value returned
    spc,          \* unified_search: "call" before it runs, "returned" after
    sworld,       \* unified_search: what the providers would answer
    sres,         \* unified_search: providers invoked, results returned
    epc,          \* search_ein_multisource: "run" while querying, "done" after
    ename,        \* search_ein_multisource: org_name
    equeries,     \* search_ein_multisource: the queries issued, with their outcome
    elast,        \* search_ein_multisource: results and page fetches of the last query
    eret,         \* search_ein_multisource: the value returned
    raw_links,    \* table raw_links: the ids of its rows
    parse_logs,   \* table parse_logs: its rows in insertion order
    ppc,          \* process_links: "idle" between runs, "running" inside the loop
    pbatch,       \* process_links: the selected links not yet handled
    pruns,        \* number of process_links runs started
    pmaxruns,     \* number of runs of the behaviour
    pprev,        \* how the last run ended: "none", "completed", "crashed"
    pfetches,     \* per raw link, the number of fetch_page calls for it
    pextracts,    \* per raw link, the number of parse_event_with_gpt calls
    plogfailed,   \* some log_parse_result write did not reach the table
    plast,        \* what the loop body did with the last link handled
    ein_logs,     \* table ein_enrichment_logs: its rows in insertion order
    xpc,          \* enrich_data: "loop" at the while test, "orgs" and "evs" in a pass
    xlimit,       \* enrich_data: the argument limit
    xprocessed,   \* enrich_data: the local processed
    xpassbase,    \* enrich_data: processed when the current pass began
    xorgbatch,    \* enrich_data: the organizers of the pass not yet processed
    xevbatch,     \* enrich_data: the events of the pass not yet processed
    xselected,    \* enrich_data: the pass selected some organizer or event
    xlast,        \* what process_single_organizer or _event did last
    fpc,          \* one function call: "call" before it runs, then its position
    fin,          \* one function call: the arguments and what the world answers
    fout,         \* one function call: what it did and returned
    link_urls,    \* search_scraper: the rows of raw_links, each its id and url
    total_saved,  \* search_scraper.main: the local total_saved
    slast,        \* search_scraper: the last save_raw_link call and its result
    mpc,          \* main.py: the position of the runner
    mrunning,     \* main.py: the stages whose process is running
    mtrace        \* main.py: the stages started and how each ended, in order

dbVars == <<organizers, events>>
upVars == <<orgCalls, evCalls, failedCalls>>
raceVars == <<rpc, rdata, rret, rtx, rorder>>
jsonVars == <<jtext, jpc, jresult>>
gptVars == <<gpc, gattempt, ghist, gsleeps, gret>>
searchVars == <<spc, sworld, sres>>
einVars == <<epc, ename, equeries, elast, eret>>
parseVars ==
    <<raw_links, parse_logs, ppc, pbatch, pruns, pmaxruns, pprev,
      pfetches, pextracts, plogfailed, plast>>
enrichVars ==
    <<ein_logs, xpc, xlimit, xprocessed, xpassbase, xorgbatch, xevbatch, xselected, xlast>>
unitVars == <<fpc, fin, fout>>
scraperVars == <<link_urls, total_saved, slast>>
runnerVars == <<mpc, mrunning, mtrace>>
lateVars == <<unitVars, scraperVars, runnerVars>>
vars ==
    <<organizers, events, orgCalls, evCalls, failedCalls, rpc, rdata, rret, rtx, rorder,
      jtext, jpc, jresult, gpc, gattempt, ghist, gsleeps, gret,
      spc, sworld, sres, epc, ename, equeries, elast, eret,
      raw_links, parse_logs, ppc, pbatch, pruns, pmaxruns, pprev,
      pfetches, pextracts, plogfailed, plast,
      ein_logs, xpc, xlimit, xprocessed, xpassbase, xorgbatch, xevbatch, xselected, xlast,
      fpc, fin, fout, link_urls, total_saved, slast, mpc, mrunning, mtrace>>

----
\* ---------------------------------------------------------------- values

\* Python None / SQL NULL / JSON null.
None == <<"<None>">>
\* JSON number 0, JSON false, JSON empty list.
Zero == <<"<0>">>
FalseV == <<"<False>">>
EmptyList == <<"<[]>">>
NonStrings == {None, Zero, FalseV, EmptyList}

\* bool(v): None, "", 0, False and [] are falsy.
Truthy(v) == v \notin NonStrings /\ v # <<>>

\* str(v)
PyStr(v) ==
    IF v = None THEN <<"None">>
    ELSE IF v = Zero THEN <<"0">>
    ELSE IF v = FalseV THEN <<"False">>
    ELSE IF v = EmptyList THEN <<"[", "]">>
    ELSE v

\* str.lower() on one character
LowerChar(c) ==
    CASE c = "G" -> "g"
      [] c = "H" -> "h"
      [] c = "X" -> "x"
      [] c = "None" -> "none"
      [] c = "False" -> "false"
      [] OTHER -> c

Lower(s) == [i \in 1..Len(s) |-> LowerChar(s[i])]

IsSpace(c) == c \in {" ", "\n"}

RECURSIVE LStrip(_)
LStrip(s) == IF s # <<>> /\ IsSpace(Head(s)) THEN LStrip(Tail(s)) ELSE s

RECURSIVE RStrip(_)
RStrip(s) ==
    IF s # <<>> /\ IsSpace(s[Len(s)]) THEN RStrip(SubSeq(s, 1, Len(s) - 1)) ELSE s

\* str.strip()
Strip(s) == RStrip(LStrip(s))

\* dict.get(k): an absent key reads as None.
Get(d, k) == IF k \in DOMAIN d THEN d[k] ELSE None

\* "-".join(parts)
RECURSIVE JoinHyphen(_)
JoinHyphen(parts) ==
    IF parts = <<>> THEN <<>>
    ELSE IF Len(parts) = 1 THEN parts[1]
    ELSE parts[1] \o <<"-">> \o JoinHyphen(Tail(parts))

\* hashlib.sha256(raw).hexdigest()[:64]: the digest has 64 hex characters, so
\* the slice keeps all of it; the hash is taken to be collision-free, i.e. an
\* injective tag of the joined key text.
Sha256Hex(raw) == <<"sha256:">> \o raw

----
\* ---------------------------------------------------------------- db.py

\* A call that produced no id (insert_organizer returns None).
NoId == 0

generate_uid(args) ==
    LET kept == SelectSeq(args, Truthy)
    IN  Sha256Hex(JoinHyphen([i \in 1..Len(kept) |-> Strip(Lower(PyStr(kept[i])))]))

\* AUTO_INCREMENT PRIMARY KEY: rows are never deleted by the pipeline.
NextAutoId(tbl) == Cardinality(tbl) + 1

RowWithUid(tbl, uid) == CHOOSE r \in tbl : r.uid = uid

organizer_uid(data) ==
    generate_uid(<<Get(data, "organizer_name"), Get(data, "organizer_website")>>)

organizer_values(data) ==
    [uid |-> organizer_uid(data),
     name |-> Get(data, "organizer_name"),
     ein |-> Get(data, "organizer_ein"),
     website |-> Get(data, "organizer_website"),
     facebook |-> Get(data, "organizer_facebook"),
     instagram |-> Get(data, "organizer_instagram"),
     contact_title |-> Get(data, "organizer_contact_title")]

WithId(values, id) == [k \in DOMAIN values \cup {"id"} |-> IF k = "id" THEN id ELSE values[k]]

\* INSERT INTO organizers ... ON DUPLICATE KEY UPDATE id=LAST_INSERT_ID(id),
\* with UNIQUE (uid): one atomic statement; cursor.lastrowid is the id of the
\* inserted row, or of the existing row with that uid.
organizers_upsert_nounique(tbl, values) ==
    [rows |-> tbl \cup {WithId(values, NextAutoId(tbl))}, lastrowid |-> NextAutoId(tbl)]

organizers_upsert(tbl, values) ==
    IF \E r \in tbl : r.uid = values.uid
    THEN [rows |-> tbl, lastrowid |-> RowWithUid(tbl, values.uid).id]
    ELSE [rows |-> tbl \cup {WithId(values, NextAutoId(tbl))}, lastrowid |-> NextAutoId(tbl)]

\* What the store does with one call: "ok", "no_conn" (create_connection
\* returned None) or "error" (cursor.execute / commit raised mysql Error).
StoreOutcomes == {"ok", "no_conn", "error"}

insert_organizer(tbl, data, store) ==
    IF store = "no_conn" THEN [rows |-> tbl, ret |-> NoId]
    ELSE IF store = "error" THEN [rows |-> tbl, ret |-> NoId]
    ELSE LET r == organizers_upsert(tbl, organizer_values(data))
         IN  [rows |-> r.rows, ret |-> r.lastrowid]

\* insert_event: a blank date becomes None before the uid is computed.
event_date_of(data) ==
    LET d == Get(data, "event_date")
    IN  IF ~Truthy(d) \/ Strip(PyStr(d)) = <<>> THEN None ELSE d

event_uid(data) ==
    generate_uid(<<Get(data, "event_name"), event_date_of(data), Get(data, "venue_name")>>)

event_values(data, organizer_id) ==
    [uid |-> event_uid(data),
     name |-> Get(data, "event_name"),
     date |-> event_date_of(data),
     venue_name |-> Get(data, "venue_name"),
     description |-> Get(data, "description"),
     event_type |-> Get(data, "event_type"),
     dress_code |-> Get(data, "dress_code"),
     venue_parking |-> Get(data, "venue_parking"),
     sponsorship_tiers |-> Get(data, "sponsorship_tiers"),
     sponsorship_contact |-> Get(data, "sponsorship_contact"),
     past_sponsors |-> Get(data, "past_sponsors"),
     organizer_id |-> organizer_id]

\* INSERT INTO events ... ON DUPLICATE KEY UPDATE id=id, with UNIQUE (uid).
events_upsert_overwrite(tbl, values) ==
    IF \E r \in tbl : r.uid = values.uid
    THEN (tbl \ {RowWithUid(tbl, values.uid)})
            \cup {WithId(values, RowWithUid(tbl, values.uid).id)}
    ELSE tbl \cup {WithId(values, NextAutoId(tbl))}

events_upsert(tbl, values) ==
    IF \E r \in tbl : r.uid = values.uid
    THEN tbl
    ELSE tbl \cup {WithId(values, NextAutoId(tbl))}

\* FOREIGN KEY (organizer_id) REFERENCES organizers(id): NULL is allowed, an
\* id of no organizer makes the statement fail.
ForeignKeyOk(orgs, organizer_id) ==
    organizer_id = NoId \/ \E o \in orgs : o.id = organizer_id

\* insert_event returns nothing; "stored" records whether the statement ran.
insert_event(orgs, tbl, data, organizer_id, store) ==
    IF store # "ok" \/ ~ForeignKeyOk(orgs, organizer_id)
    THEN [rows |-> tbl, stored |-> FALSE]
    ELSE [rows |-> events_upsert(tbl, event_values(data, organizer_id)), stored |-> TRUE]

----
\* ------------------------------------- parser.py: safe_json (decoder)

\* A completion is a sequence of lexical pieces: the code fence, the
\* language tag after it, line breaks and blanks, braces and brackets, an
\* object member written with double or with single quotes, a string, a
\* number, null, and a word of commentary.
Fence == "fence"
MemberDQ == "dq-member"
MemberSQ == "sq-member"
StringDQ == "dq-string"

\* Decoded values: the Python type and the number of members or elements.
JsonDict(n) == [type |-> "dict", size |-> n]
JsonList(n) == [type |-> "list", size |-> n]
JsonInt == [type |-> "int", size |-> 0]
JsonStr == [type |-> "str", size |-> 1]
JsonNull == [type |-> "NoneType", size |-> 0]
EmptyMap == JsonDict(0)

\* bool(value)
JsonTruthy(v) == v.size > 0

\* re.sub of the fence pattern (fence+json at a line start, fence at a line
\* start, fence at a line end; IGNORECASE, MULTILINE) by the empty string:
\* from the left, a fence at a line start goes together with a language tag
\* right after it, and a fence at a line start or a line end goes.
RECURSIVE SubFences(_, _)
SubFences(t, i) ==
    IF i > Len(t) THEN <<>>
    ELSE LET atStart == i = 1 \/ t[i - 1] = "\n"
             atEnd == i = Len(t) \/ t[i + 1] = "\n"
         IN  IF t[i] = Fence /\ atStart /\ i < Len(t) /\ t[i + 1] \in {"json", "JSON"}
             THEN SubFences(t, i + 2)
             ELSE IF t[i] = Fence /\ (atStart \/ atEnd)
             THEN SubFences(t, i + 1)
             ELSE <<t[i]>> \o SubFences(t, i + 1)

\* re.search of an opening brace, anything (DOTALL, greedy), a closing brace:
\* the span from the first opening brace to the last closing brace.
BraceSpan(t) ==
    LET opens == {i \in 1..Len(t) : t[i] = "{"}
        closes == {i \in 1..Len(t) : t[i] = "}"}
    IN  IF opens = {} THEN [found |-> FALSE, text |-> <<>>]
        ELSE LET f == CHOOSE i \in opens : \A k \in opens : i <= k
                 after == {i \in closes : i > f}
             IN  IF after = {} THEN [found |-> FALSE, text |-> <<>>]
                 ELSE [found |-> TRUE,
                       text |-> SubSeq(t, f, CHOOSE i \in after : \A k \in after : k <= i)]

JsonFail == [ok |-> FALSE, value |-> JsonNull, rest |-> <<>>]

\* One JSON value at the head of t (t holds no white space).
RECURSIVE JsonValue(_)
JsonValue(t) ==
    IF t = <<>> THEN JsonFail
    ELSE CASE Head(t) = "0" -> [ok |-> TRUE, value |-> JsonInt, rest |-> Tail(t)]
           [] Head(t) = "null" -> [ok |-> TRUE, value |-> JsonNull, rest |-> Tail(t)]
           [] Head(t) = StringDQ -> [ok |-> TRUE, value |-> JsonStr, rest |-> Tail(t)]
           [] Head(t) = "{" ->
                IF Len(t) >= 2 /\ t[2] = "}"
                THEN [ok |-> TRUE, value |-> JsonDict(0), rest |-> SubSeq(t, 3, Len(t))]
                ELSE IF Len(t) >= 3 /\ t[2] = MemberDQ /\ t[3] = "}"
                THEN [ok |-> TRUE, value |-> JsonDict(1), rest |-> SubSeq(t, 4, Len(t))]
                ELSE JsonFail
           [] Head(t) = "[" ->
                IF Len(t) >= 2 /\ t[2] = "]"
                THEN [ok |-> TRUE, value |-> JsonList(0), rest |-> SubSeq(t, 3, Len(t))]
                ELSE LET e == JsonValue(Tail(t))
                     IN  IF e.ok /\ e.rest # <<>> /\ Head(e.rest) = "]"
                         THEN [ok |-> TRUE, value |-> JsonList(1), rest |-> Tail(e.rest)]
                         ELSE JsonFail
           [] OTHER -> JsonFail

\* json.loads(t): one value with white space around it and nothing else;
\* ok = FALSE stands for the exception it raises otherwise.
json_loads(t) ==
    LET v == JsonValue(SelectSeq(t, LAMBDA c : ~IsSpace(c)))
    IN  IF v.ok /\ v.rest = <<>> THEN [ok |-> TRUE, value |-> v.value]
        ELSE [ok |-> FALSE, value |-> JsonNull]

\* str.replace of every single quote by a double quote
ReplaceQuotes(t) == [i \in 1..Len(t) |-> IF t[i] = MemberSQ THEN MemberDQ ELSE t[i]]

safe_json(text) ==
    IF text = <<>> THEN EmptyMap
    ELSE LET stripped == Strip(SubFences(Strip(text), 1))
             span == BraceSpan(stripped)
             cleaned ==
                 IF ~(stripped # <<>> /\ Head(stripped) = "{") /\ span.found
                 THEN span.text
                 ELSE stripped
             first == json_loads(cleaned)
             second == json_loads(ReplaceQuotes(cleaned))
         IN  IF first.ok THEN first.value
             ELSE IF second.ok THEN second.value
             ELSE EmptyMap

----
\* ------------------------------------------------ parser.py: gpt_call

MAX_GPT_RETRIES == 5
SLEEP_BETWEEN_GPT_CALLS == 1
BACKOFF_BASE == 2
PARSER_BACKOFF_CAP == 20

Min(a, b) == IF a <= b THEN a ELSE b

\* min(2 * (2 ** (i - 1)), 20)
parser_backoff_delay(i) == Min(BACKOFF_BASE * (2 ^ (i - 1)), PARSER_BACKOFF_CAP)

\* An exception's text, lower-cased, is the set of the marker substrings
\* it contains.
RateLimitMarkers == {"rate limit", "rate_limit_exceeded", "429", "requests per min"}
TransientMarkers == {"timeout", "timed out", "502", "503", "504", "temporarily unavailable"}

is_rate_limit(msg) == msg \cap RateLimitMarkers # {}
is_transient(msg) == msg \cap TransientMarkers # {}

\* What one call of client.chat.completions.create produces: a completion
\* text, or an exception with its message.
Completion(t) == [kind |-> "text", text |-> t, msg |-> {}]
Raised(m) == [kind |-> "error", text |-> <<>>, msg |-> m]

\* raise ValueError("OpenAI returned non-JSON/invalid JSON")
NonJsonMsg == {"non-json/invalid json"}

\* One iteration of the for loop of gpt_call: what it does next, the value
\* it returns if it returns, and the sleeps it makes.
gpt_iteration(attempt, outcome) ==
    LET parsed == safe_json(outcome.text)
        msg == IF outcome.kind = "text" THEN NonJsonMsg ELSE outcome.msg
    IN  IF outcome.kind = "text" /\ JsonTruthy(parsed)
        THEN [next |-> "return", value |-> parsed,
              sleeps |-> <<[kind |-> "pause", delay |-> SLEEP_BETWEEN_GPT_CALLS]>>]
        ELSE IF is_rate_limit(msg) \/ is_transient(msg)
        THEN [next |-> "continue", value |-> EmptyMap,
              sleeps |-> <<[kind |-> "backoff", delay |-> parser_backoff_delay(attempt)]>>]
        ELSE [next |-> "break", value |-> EmptyMap, sleeps |-> <<>>]

----
\* ------------------------------- ein_enrichment.py: search providers

\* What a provider's remote call does: it answers with a list of result
\* items, or it raises.
Answer(items) == [ok |-> TRUE, items |-> items]
Fails == [ok |-> FALSE, items |-> <<>>]

\* What a function of the module does: it returns a list, or it raises.
Returns(items) == [raised |-> FALSE, results |-> items]
Raises == [raised |-> TRUE, results |-> <<>>]

\* serpapi_search: no key or no client library gives []; the remote call and
\* the conversion of its items run inside try/except, which gives [].
serpapi_search(w) ==
    IF ~w.serp_ready THEN Returns(<<>>)
    ELSE IF w.serp.ok THEN Returns(w.serp.items)
    ELSE Returns(<<>>)

\* google_cse_search: no key or no engine id gives []; with googleapiclient
\* installed its answer is returned, and when it raises the HTTP request is
\* tried; an HTTP failure gives [].
google_cse_search(w) ==
    IF ~w.cse_ready THEN Returns(<<>>)
    ELSE IF w.client_installed /\ w.client.ok THEN Returns(w.client.items)
    ELSE IF w.http.ok THEN Returns(w.http.items)
    ELSE Returns(<<>>)

\* unified_search: the providers invoked, in order, and what is returned.
unified_search_nofallback(w) ==
    LET first == serpapi_search(w)
    IN  [calls |-> <<"serpapi_search">>, raised |-> first.raised,
         primary |-> first.results, secondary |-> <<>>, results |-> first.results]

unified_search(w) ==
    LET first == serpapi_search(w)
        second == google_cse_search(w)
    IN  IF first.raised
        THEN [calls |-> <<"serpapi_search">>, raised |-> TRUE,
              primary |-> <<>>, secondary |-> <<>>, results |-> <<>>]
        ELSE IF first.results # <<>>
        THEN [calls |-> <<"serpapi_search">>, raised |-> FALSE,
              primary |-> first.results, secondary |-> <<>>, results |-> first.results]
        ELSE [calls |-> <<"serpapi_search", "google_cse_search">>, raised |-> second.raised,
              primary |-> first.results, secondary |-> second.results,
              results |-> second.results]

NoWorld ==
    [serp_ready |-> FALSE, serp |-> Fails, cse_ready |-> FALSE,
     client_installed |-> FALSE, client |-> Fails, http |-> Fails]

NoSearch ==
    [calls |-> <<>>, raised |-> FALSE, primary |-> <<>>, secondary |-> <<>>, results |-> <<>>]

----
\* ------------------------------------ ein_enrichment.py: EIN locator

\* Texts (snippets, titles, pages) are sequences of words; the words that
\* have the shape two digits, hyphen, seven digits are these.
EinA == "12-3456789"
EinB == "98-7654321"
EinWords == {EinA, EinB}

\* EIN_REGEX.search(text): the leftmost word of that shape.
RECURSIVE ein_regex_search(_)
ein_regex_search(text) ==
    IF text = <<>> THEN None
    ELSE IF Head(text) \in EinWords THEN <<Head(text)>>
    ELSE ein_regex_search(Tail(text))

extract_ein_from_snippet(snippet) ==
    IF snippet = <<>> THEN None ELSE ein_regex_search(snippet)

\* (r.get("snippet") or "") + " " + (r.get("title") or "")
SnippetAndTitle(r) ==
    (IF Truthy(r.snippet) THEN r.snippet ELSE <<>>) \o <<" ">>
        \o (IF Truthy(r.title) THEN r.title ELSE <<>>)

\* First loop of search_site_for_ein: the first result whose snippet+title
\* holds an EIN.
RECURSIVE ScanSnippets(_)
ScanSnippets(results) ==
    IF results = <<>> THEN None
    ELSE LET ein == extract_ein_from_snippet(SnippetAndTitle(Head(results)))
         IN  IF Truthy(ein) THEN ein ELSE ScanSnippets(Tail(results))

\* Second loop: requests.get(link).text for each result with a link; a
\* request that raises and an empty page are skipped.
RECURSIVE ScanPages(_, _, _)
ScanPages(results, pages, fetched) ==
    IF results = <<>> THEN [ein |-> None, fetched |-> fetched]
    ELSE LET link == Head(results).link
         IN  IF ~Truthy(link) THEN ScanPages(Tail(results), pages, fetched)
             ELSE LET page == pages[link]
                      m == ein_regex_search(page.html)
                  IN  IF page.ok /\ page.html # <<>> /\ Truthy(m)
                      THEN [ein |-> m, fetched |-> Append(fetched, link)]
                      ELSE ScanPages(Tail(results), pages, Append(fetched, link))

\* The page scan made first, the snippets only when no page matched.
search_site_for_ein_pages_first(w, pages) ==
    LET found == unified_search(w)
        scan == ScanPages(found.results, pages, <<>>)
    IN  IF found.raised THEN [ein |-> None, fetched |-> <<>>, results |-> <<>>]
        ELSE IF Truthy(scan.ein)
        THEN [ein |-> scan.ein, fetched |-> scan.fetched, results |-> found.results]
        ELSE [ein |-> ScanSnippets(found.results), fetched |-> scan.fetched,
              results |-> found.results]

search_site_for_ein(w, pages) ==
    LET found == unified_search(w)
        ein == ScanSnippets(found.results)
    IN  IF found.raised THEN [ein |-> None, fetched |-> <<>>, results |-> <<>>]
        ELSE IF Truthy(ein) THEN [ein |-> ein, fetched |-> <<>>, results |-> found.results]
        ELSE [ein |-> ScanPages(found.results, pages, <<>>).ein,
              fetched |-> ScanPages(found.results, pages, <<>>).fetched,
              results |-> found.results]

\* The four queries of search_ein_multisource, in the order of the code.
MULTISOURCE_QUERIES == 4

multisource_query(i, org_name) ==
    CASE i = 1 -> <<org_name, "site:projects.propublica.org OR site:apps.irs.gov">>
      [] i = 2 -> <<org_name, "site:causeiq.com">>
      [] i = 3 -> <<org_name, "site:charitynavigator.org">>
      [] OTHER -> <<org_name, "nonprofit EIN">>

\* After query i gave ein: return it when it is a match or the query was
\* the last one, else go on with the next query.
multisource_after_noshortcut(i, ein) ==
    IF i = MULTISOURCE_QUERIES THEN [done |-> TRUE, ret |-> ein]
    ELSE [done |-> FALSE, ret |-> None]

multisource_after(i, ein) ==
    IF Truthy(ein) \/ i = MULTISOURCE_QUERIES THEN [done |-> TRUE, ret |-> ein]
    ELSE [done |-> FALSE, ret |-> None]

NoQuery == [results |-> <<>>, fetched |-> <<>>]

----
\* --------------------------------------------- parser.py: process_links

MISSING_FIELDS_THRESHOLD == 4

REQUIRED_FIELDS ==
    <<"event_name", "event_date", "event_type", "description", "venue_name",
      "venue_address", "venue_city", "venue_state", "venue_zip", "venue_parking",
      "venue_website", "registration_url", "sponsorship_url", "sponsorship_tiers",
      "sponsorship_contact", "past_sponsors", "dress_code", "organizer_name",
      "organizer_ein", "organizer_website", "organizer_email", "organizer_phone",
      "organizer_contact_name", "organizer_contact_title", "organizer_contact_email",
      "organizer_facebook", "organizer_instagram">>

FieldSet == {REQUIRED_FIELDS[i] : i \in 1..Len(REQUIRED_FIELDS)}

\* The keys process_links passes through clean_text: every required field
\* but event_date and registration_url.
CleanedFields == FieldSet \ {"event_date", "registration_url"}

\* A value gpt_call returns: a dict with its items, or a value of another
\* type (a list, a str), which is never empty when gpt_call returns it.
NoFields == [k \in {} |-> None]
PyDict(fields) == [type |-> "dict", fields |-> fields]
PyOther(type) == [type |-> type, fields |-> NoFields]

\* bool(value)
PyTruthy(value) == value.type # "dict" \/ DOMAIN value.fields # {}

\* The test without the strip.
IsMissingUnstripped(v) == v = None \/ PyStr(v) = <<>>

\* v is None or str(v).strip() == ""
IsMissing(v) == v = None \/ Strip(PyStr(v)) = <<>>

\* count_missing_fields: a falsy value counts every field; a value without
\* .get raises AttributeError.
count_missing_fields(parsed) ==
    IF ~PyTruthy(parsed) THEN [raised |-> FALSE, count |-> Len(REQUIRED_FIELDS)]
    ELSE IF parsed.type # "dict" THEN [raised |-> TRUE, count |-> 0]
    ELSE [raised |-> FALSE,
          count |-> Cardinality({i \in 1..Len(REQUIRED_FIELDS) :
                                     IsMissing(Get(parsed.fields, REQUIRED_FIELDS[i]))})]

\* deep_synthesize_fields: no candidate URL gives {}; an empty synthesis
\* gives {}; a synthesis without .get raises; else the required fields of
\* the synthesis that are not None and not blank.
\* deep.synth is what the language model answers when it is asked.
deep_synthesize_fields_unguarded(deep) ==
    IF ~PyTruthy(deep.synth) THEN [raised |-> FALSE, gpt_called |-> TRUE, out |-> NoFields]
    ELSE IF deep.synth.type # "dict" THEN [raised |-> TRUE, gpt_called |-> TRUE, out |-> NoFields]
    ELSE [raised |-> FALSE, gpt_called |-> TRUE,
          out |-> [k \in {f \in FieldSet \cap DOMAIN deep.synth.fields :
                             ~IsMissing(deep.synth.fields[f])} |-> deep.synth.fields[k]]]

deep_synthesize_fields(deep) ==
    IF ~deep.candidates THEN [raised |-> FALSE, gpt_called |-> FALSE, out |-> NoFields]
    ELSE IF ~PyTruthy(deep.synth) THEN [raised |-> FALSE, gpt_called |-> TRUE, out |-> NoFields]
    ELSE IF deep.synth.type # "dict" THEN [raised |-> TRUE, gpt_called |-> TRUE, out |-> NoFields]
    ELSE [raised |-> FALSE, gpt_called |-> TRUE,
          out |-> [k \in {f \in FieldSet \cap DOMAIN deep.synth.fields :
                             ~IsMissing(deep.synth.fields[f])} |-> deep.synth.fields[k]]]

\* The merge loop of process_links:
\*   if v and (not data.get(k) or str(data.get(k)).strip() == ""): data[k] = v
merge_accepts(data, k, v) ==
    Truthy(v) /\ (~Truthy(Get(data, k)) \/ Strip(PyStr(Get(data, k))) = <<>>)

merge(data, synth) ==
    [k \in DOMAIN data \cup {f \in DOMAIN synth : merge_accepts(data, f, synth[f])} |->
        IF k \in DOMAIN synth /\ merge_accepts(data, k, synth[k]) THEN synth[k] ELSE data[k]]

\* The comparison that starts the escalation.
escalates_above(missing_count) == missing_count > MISSING_FIELDS_THRESHOLD

escalates(missing_count) == missing_count >= MISSING_FIELDS_THRESHOLD

\* The fallback record: the page title as event name, the url as
\* registration url, every other field the empty string.
fallback(title, url) ==
    [f \in FieldSet |->
        IF f = "event_name" THEN (IF Truthy(title) THEN title ELSE <<>>)
        ELSE IF f = "registration_url" THEN url
        ELSE <<>>]

\* normalize_date: a falsy value and a text dateparser cannot read give
\* None; a date text gives its ISO form.
DateText == <<"d">>
IsoDate == <<"D">>

normalize_date(date_str) ==
    IF ~Truthy(date_str) THEN None
    ELSE IF PyStr(date_str) = DateText THEN IsoDate
    ELSE None

\* re.sub of each run of white space by one blank
RECURSIVE CollapseSpaces(_)
CollapseSpaces(t) ==
    IF t = <<>> THEN <<>>
    ELSE IF IsSpace(Head(t))
    THEN <<" ">> \o CollapseSpaces(LStrip(t))
    ELSE <<Head(t)>> \o CollapseSpaces(Tail(t))

clean_text(v) == IF ~Truthy(v) THEN None ELSE Strip(CollapseSpaces(PyStr(v)))

\* Lines 355-368: the default registration url, the normalized date, the
\* cleaned text fields.
finalize(data, url) ==
    [k \in DOMAIN data \cup {"registration_url", "event_date"} |->
        IF k = "registration_url"
        THEN (IF Truthy(Get(data, k)) THEN data[k] ELSE url)
        ELSE IF k = "event_date" THEN normalize_date(Get(data, k))
        ELSE IF k \in CleanedFields THEN clean_text(data[k])
        ELSE data[k]]

\* A row of parse_logs. The message is its fixed part.
LogRow(id, status, message) == [raw_link_id |-> id, status |-> status, message |-> message]

\* log_parse_result: without a connection or on a failing INSERT nothing
\* is stored.
log_parse_result(logs, row, store) == IF store = "ok" THEN Append(logs, row) ELSE logs

RECURSIVE log_all(_, _, _)
log_all(logs, rows, stores) ==
    IF rows = <<>> THEN logs
    ELSE log_all(log_parse_result(logs, Head(rows), Head(stores)), Tail(rows), Tail(stores))

\* fetch_unprocessed_links: WHERE id NOT IN (SELECT raw_link_id FROM
\* parse_logs). NOT IN is never true when the subquery holds a NULL.
LoggedIds(logs) == {logs[i].raw_link_id : i \in 1..Len(logs)}

Unprocessed(links, logs) ==
    IF NoId \in LoggedIds(logs) THEN {}
    ELSE links \ LoggedIds(logs)

\* LIMIT without ORDER BY: any rows of the unprocessed ones, as many as the
\* limit allows.
fetch_unprocessed_links(links, logs, limit) ==
    {rows \in SUBSET Unprocessed(links, logs) :
        Cardinality(rows) = Min(limit, Cardinality(Unprocessed(links, logs)))}

UrlNames == <<"u1", "u2", "u3", "u4">>
UrlOf(id) == <<UrlNames[id]>>

NoLink ==
    [id |-> NoId, outcome |-> "none", first |-> PyDict(NoFields), counted |-> FALSE,
     missing |-> 0, escalated |-> FALSE, merged |-> FALSE, before |-> NoFields,
     supplement |-> NoFields, after |-> NoFields, saved |-> NoFields,
     organizer_id |-> NoId, event_stored |-> FALSE,
     candidates |-> FALSE, gpt_called |-> FALSE, deep_raised |-> FALSE]

\* An event insert also without an organizer id.
event_attempted_always(organizer_id) == TRUE

\* if organizer_id: insert_event(data, organizer_id)
event_attempted(organizer_id) == organizer_id # NoId

\* The body of the for loop of process_links for one link. in holds what
\* the world answers: the page, the single-pass extraction, the deep
\* search, the store for the organizer and the event.
\* The result: the log rows written in order, the tables after, whether
\* an exception left the loop, and what was done.
process_link(id, in, orgs, evs) ==
    LET url == UrlOf(id)
        base == [NoLink EXCEPT !.id = id]
        first == in.parse.value
        cm == count_missing_fields(first)
        deep == deep_synthesize_fields(in.deep)
        esc == escalates(cm.count)
        merged == esc /\ ~deep.raised
        data1 == IF merged THEN merge(first.fields, deep.out) ELSE first.fields
        usefallback == count_missing_fields(PyDict(data1)).count = Len(REQUIRED_FIELDS)
        data2 == IF usefallback THEN fallback(in.page.title, url) ELSE data1
        data3 == finalize(data2, url)
        org == insert_organizer(orgs, data3, in.org_store)
        ev == insert_event(org.rows, evs, data3, org.ret, in.ev_store)
        final_missing == count_missing_fields(PyDict(data3)).count
        fallbackrow == IF usefallback THEN <<LogRow(id, "failed", "fallback used")>> ELSE <<>>
        done == [base EXCEPT !.first = first, !.counted = TRUE, !.missing = cm.count,
                             !.escalated = esc, !.merged = merged, !.before = first.fields,
                             !.supplement = IF merged THEN deep.out ELSE NoFields,
                             !.after = data1, !.saved = data3,
                             !.candidates = (esc /\ in.deep.candidates),
                             !.gpt_called = (esc /\ deep.gpt_called),
                             !.deep_raised = (esc /\ deep.raised)]
    IN  IF ~in.page.ok
        THEN [rows |-> <<LogRow(id, "failed", "Fetch failed")>>, orgs |-> orgs, evs |-> evs,
              crashed |-> FALSE, extracted |-> FALSE,
              did |-> [base EXCEPT !.outcome = "fetch_failed"]]
        ELSE IF in.parse.raised
        THEN [rows |-> <<LogRow(id, "failed", "Parse error")>>, orgs |-> orgs, evs |-> evs,
              crashed |-> FALSE, extracted |-> TRUE,
              did |-> [base EXCEPT !.outcome = "parse_error"]]
        ELSE IF cm.raised
        THEN [rows |-> <<>>, orgs |-> orgs, evs |-> evs,
              crashed |-> TRUE, extracted |-> TRUE,
              did |-> [base EXCEPT !.outcome = "crashed", !.first = first]]
        ELSE IF in.org_store = "raise"
        THEN [rows |-> fallbackrow \o <<LogRow(id, "failed", "Save error")>>,
              orgs |-> orgs, evs |-> evs, crashed |-> FALSE, extracted |-> TRUE,
              did |-> [done EXCEPT !.outcome = "save_error"]]
        ELSE [rows |-> fallbackrow \o
                  <<LogRow(id, IF final_missing < Len(REQUIRED_FIELDS) THEN "success" ELSE "failed",
                           "Parsed and saved")>>,
              orgs |-> org.rows,
              evs |-> IF event_attempted(org.ret) THEN ev.rows ELSE evs,
              crashed |-> FALSE, extracted |-> TRUE,
              did |-> [done EXCEPT !.outcome = "saved", !.organizer_id = org.ret,
                                   !.event_stored = (event_attempted(org.ret) /\ ev.stored)]]

----
\* ------------------------------------ ein_enrichment.py: enrich_data

ENRICH_BATCH_SIZE == 8

\* UPDATE <table> SET cols WHERE id = <id>
SetCols(row, cols) == [k \in DOMAIN row |-> IF k \in DOMAIN cols THEN cols[k] ELSE row[k]]
UpdateById(tbl, id, cols) == {IF r.id = id THEN SetCols(r, cols) ELSE r : r \in tbl}

\* fetch_organizers_to_enrich: the WHERE clause.
ExcludedNames == {<<"None">>, <<"null">>, <<"NULL">>}

OrganizerSelectable(r) ==
    /\ r.ein = None \/ r.facebook = None \/ r.instagram = None \/ r.contact_title = None
    /\ r.name # None
    /\ Strip(r.name) # <<>>
    /\ r.name \notin ExcludedNames

\* fetch_events_to_enrich: the WHERE clause.
ENRICH_EVENT_FIELDS ==
    <<"description", "event_type", "dress_code", "venue_parking",
      "sponsorship_tiers", "sponsorship_contact", "past_sponsors">>

EventSelectable(r) == \E i \in 1..Len(ENRICH_EVENT_FIELDS) : r[ENRICH_EVENT_FIELDS[i]] = None

\* LIMIT batch_size without ORDER BY: any rows of the selectable ones, as
\* many as the limit allows. The batch holds the rows as they were read.
SelectBatches(rows) ==
    {b \in SUBSET rows : Cardinality(b) = Min(ENRICH_BATCH_SIZE, Cardinality(rows))}

fetch_organizers_to_enrich(tbl) == SelectBatches({r \in tbl : OrganizerSelectable(r)})
fetch_events_to_enrich(tbl) == SelectBatches({r \in tbl : EventSelectable(r)})

\* trim_len: a falsy value as it is, else the first maxlen characters of str.
trim_len(val, maxlen) ==
    IF ~Truthy(val) THEN val
    ELSE SubSeq(PyStr(val), 1, Min(Len(PyStr(val)), maxlen))

\* json_if_needed: None and "" give None; a list is dumped; else str.
json_if_needed(val) == IF val = None \/ val = <<>> THEN None ELSE PyStr(val)

\* An EIN update that writes the website column instead.
update_organizer_website(tbl, org_id, ein, store) ==
    IF store = "ok" THEN UpdateById(tbl, org_id, [website |-> ein]) ELSE tbl

\* update_organizer_ein: without a connection nothing happens; an exception
\* of the UPDATE is caught.
update_organizer_ein(tbl, org_id, ein, store) ==
    IF store = "ok" THEN UpdateById(tbl, org_id, [ein |-> ein]) ELSE tbl

\* A row of ein_enrichment_logs.
EinLogRow(organizer_id, ein, status) ==
    [organizer_id |-> organizer_id, source |-> "MultiSource", ein |-> ein, status |-> status]

\* A log that keeps one entry per organizer, the latest.
log_ein_result_latest(logs, row, store) ==
    IF store = "ok"
    THEN Append(SelectSeq(logs, LAMBDA r : r.organizer_id # row.organizer_id), row)
    ELSE logs

\* log_ein_result: without a connection or on a failing INSERT nothing is
\* stored.
log_ein_result(logs, row, store) == IF store = "ok" THEN Append(logs, row) ELSE logs

\* The log call process_single_organizer makes for the outcome of the
\* locator: success with the EIN found, failed when none was found or the
\* locator raised.
locator_log_found_only(org_id, locator) ==
    IF ~locator.raised /\ Truthy(locator.ein)
    THEN <<EinLogRow(org_id, locator.ein, "success")>>
    ELSE <<>>

locator_log(org_id, locator) ==
    IF ~locator.raised /\ Truthy(locator.ein)
    THEN <<EinLogRow(org_id, locator.ein, "success")>>
    ELSE <<EinLogRow(org_id, None, "failed")>>

\* ein_enrichment.gpt_call returns safe_json of the completion as it is:
\* a dict, or a list, a str, an int, None.
\* key in enrich: a dict is asked for the key; a list or a str of other
\* content does not hold it; an int and None raise TypeError.
InRaises(enrich) == enrich.type \in {"int", "NoneType"}
InEnrich(enrich, k) == enrich.type = "dict" /\ k \in DOMAIN enrich.fields

\* bool(inferred)
EnrichTruthy(v) ==
    IF v.type = "dict" THEN DOMAIN v.fields # {} ELSE v.type \in {"list", "str"}

SOCIAL_FIELDS == <<"facebook", "instagram", "contact_title">>

\* to_update of process_single_organizer.
to_update(ein, enrich) ==
    [k \in {f \in {"ein"} : Truthy(ein)}
            \cup {SOCIAL_FIELDS[i] : i \in {j \in 1..Len(SOCIAL_FIELDS) :
                                                 InEnrich(enrich, SOCIAL_FIELDS[j])}} |->
        IF k = "ein" THEN ein
        ELSE IF Truthy(enrich.fields[k]) THEN enrich.fields[k] ELSE None]

\* update_organizer_full: the SET list, the UPDATE. Without a connection
\* conn.cursor() raises; a failing UPDATE raises.
organizer_to_set(fields) ==
    [k \in {f \in DOMAIN fields :
               IF f = "ein" THEN Truthy(fields[f]) ELSE fields[f] # None} |->
        trim_len(IF Truthy(fields[k]) THEN fields[k] ELSE None, IF k = "ein" THEN 20 ELSE 255)]

update_organizer_full(tbl, org_id, fields, store) ==
    IF store = "no_conn" THEN [raised |-> TRUE, rows |-> tbl]
    ELSE IF DOMAIN organizer_to_set(fields) = {} THEN [raised |-> FALSE, rows |-> tbl]
    ELSE IF store = "error" THEN [raised |-> TRUE, rows |-> tbl]
    ELSE [raised |-> FALSE, rows |-> UpdateById(tbl, org_id, organizer_to_set(fields))]

\* update_event_fields: as above; inferred.get raises on a value that is
\* not a dict.
EventMaxLen(field) ==
    CASE field \in {"event_type", "dress_code", "venue_parking"} -> 100
      [] field = "sponsorship_contact" -> 255
      [] OTHER -> 0

event_to_set(inferred) ==
    [k \in {ENRICH_EVENT_FIELDS[i] : i \in {j \in 1..Len(ENRICH_EVENT_FIELDS) :
                json_if_needed(Get(inferred, ENRICH_EVENT_FIELDS[j])) # None}} |->
        IF EventMaxLen(k) > 0
        THEN trim_len(json_if_needed(inferred[k]), EventMaxLen(k))
        ELSE json_if_needed(inferred[k])]

update_event_fields(tbl, ev_id, inferred, store) ==
    IF store = "no_conn" THEN [raised |-> TRUE, rows |-> tbl]
    ELSE IF inferred.type # "dict" THEN [raised |-> TRUE, rows |-> tbl]
    ELSE IF DOMAIN event_to_set(inferred.fields) = {} THEN [raised |-> FALSE, rows |-> tbl]
    ELSE IF store = "error" THEN [raised |-> TRUE, rows |-> tbl]
    ELSE [raised |-> FALSE, rows |-> UpdateById(tbl, ev_id, event_to_set(inferred.fields))]

NoRecord ==
    [kind |-> "none", id |-> NoId, located |-> None, locator_raised |-> FALSE,
     log_store |-> "ok", appended |-> <<>>, raised |-> FALSE]

\* process_single_organizer. in holds what the world answers: the locator,
\* the completion of the social prompt, the store for the EIN update, the
\* log and the full update.
process_single_organizer(org, in, tbl, logs) ==
    LET found == ~in.locator.raised /\ Truthy(in.locator.ein)
        ein == IF found THEN in.locator.ein ELSE None
        tbl1 == IF found THEN update_organizer_ein(tbl, org.id, ein, in.ein_store) ELSE tbl
        rows == locator_log(org.id, in.locator)
        logs1 == IF rows = <<>> THEN logs ELSE log_ein_result(logs, rows[1], in.log_store)
        fields == to_update(ein, in.enrich)
        upd == update_organizer_full(tbl1, org.id, fields, in.update_store)
        did == [NoRecord EXCEPT !.kind = "organizer", !.id = org.id, !.located = ein,
                                !.locator_raised = in.locator.raised,
                                !.log_store = in.log_store,
                                !.appended = SubSeq(logs1, Len(logs) + 1, Len(logs1))]
    IN  IF InRaises(in.enrich)
        THEN [orgs |-> tbl1, logs |-> logs1, did |-> [did EXCEPT !.raised = TRUE]]
        ELSE IF DOMAIN fields = {}
        THEN [orgs |-> tbl1, logs |-> logs1, did |-> did]
        ELSE [orgs |-> upd.rows, logs |-> logs1, did |-> [did EXCEPT !.raised = upd.raised]]

\* process_single_event.
process_single_event(ev, in, tbl, logs) ==
    LET upd == update_event_fields(tbl, ev.id, in.enrich, in.update_store)
        did == [NoRecord EXCEPT !.kind = "event", !.id = ev.id, !.log_store = in.log_store]
    IN  IF ~EnrichTruthy(in.enrich)
        THEN [evs |-> tbl, logs |-> logs, did |-> did]
        ELSE [evs |-> upd.rows, logs |-> logs, did |-> [did EXCEPT !.raised = upd.raised]]

\* processed += 1
next_processed(n) == n + 1

\* while processed < limit
budget_left(processed, limit) == processed < limit

\* if not orgs and not evs: break
pass_ends_never(selected) == FALSE

pass_ends(selected) == ~selected

----
\* ------------------------------ the parts a specification leaves alone

NoTx == [pending |-> {}, lastrowid |-> NoId, lock |-> None]

UpsertIdle ==
    /\ events = {}
    /\ orgCalls = <<>>
    /\ evCalls = <<>>
    /\ failedCalls = 0

RaceIdle ==
    /\ rpc = <<>>
    /\ rdata = <<>>
    /\ rret = <<>>
    /\ rtx = <<>>
    /\ rorder = <<>>

JsonIdle ==
    /\ jtext = <<>>
    /\ jpc = "idle"
    /\ jresult = EmptyMap

GptIdle ==
    /\ gpc = "idle"
    /\ gattempt = 0
    /\ ghist = <<>>
    /\ gsleeps = <<>>
    /\ gret = EmptyMap

SearchIdle ==
    /\ spc = "idle"
    /\ sworld = NoWorld
    /\ sres = NoSearch

EinIdle ==
    /\ epc = "idle"
    /\ ename = ""
    /\ equeries = <<>>
    /\ elast = NoQuery
    /\ eret = None

ParseIdle ==
    /\ raw_links = {}
    /\ parse_logs = <<>>
    /\ ppc = "idle"
    /\ pbatch = {}
    /\ pruns = 0
    /\ pmaxruns = 0
    /\ pprev = "none"
    /\ pfetches = <<>>
    /\ pextracts = <<>>
    /\ plogfailed = FALSE
    /\ plast = NoLink

UnitIdle ==
    /\ fpc = "idle"
    /\ fin = <<>>
    /\ fout = <<>>

ScraperIdle ==
    /\ link_urls = {}
    /\ total_saved = 0
    /\ slast = <<>>

RunnerIdle ==
    /\ mpc = "idle"
    /\ mrunning = {}
    /\ mtrace = <<>>

LateIdle == UnitIdle /\ ScraperIdle /\ RunnerIdle

EnrichIdle ==
    /\ ein_logs = <<>>
    /\ xpc = "done"
    /\ xlimit = 0
    /\ xprocessed = 0
    /\ xpassbase = 0
    /\ xorgbatch = {}
    /\ xevbatch = {}
    /\ xselected = FALSE
    /\ xlast = NoRecord

----
\* ------------------------------------------- sequential upsert calls

\* Number of upsert calls in one behaviour.
MaxCalls == 3

OrgNames == {<<"g">>, <<" ", "G", " ">>}
OrgSites == {<<>>, <<" ">>, <<"x">>}
OrgEins == {None, <<"1">>}

OrgInputs ==
    {[organizer_name |-> n, organizer_website |-> w, organizer_ein |-> e] :
        n \in OrgNames, w \in OrgSites, e \in OrgEins}

EvNames == {<<"g">>, <<"G", " ">>}
EvDates == {<<>>, <<"d">>}

EvInputs ==
    {[event_name |-> n, event_date |-> d, venue_name |-> <<"h">>] :
        n \in EvNames, d \in EvDates}

\* organizer_id arguments: None (0), the first organizer, an id of no organizer.
EvOrganizerIds == {NoId, 1}

InitUpsert ==
    /\ organizers = {}
    /\ events = {}
    /\ orgCalls = <<>>
    /\ evCalls = <<>>
    /\ failedCalls = 0
    /\ RaceIdle
    /\ JsonIdle
    /\ GptIdle
    /\ SearchIdle
    /\ EinIdle
    /\ ParseIdle
    /\ EnrichIdle
    /\ LateIdle

CallsLeft == Len(orgCalls) + Len(evCalls) + failedCalls < MaxCalls

\* insert_organizer with the store answering.
InsertOrganizer ==
    \E data \in OrgInputs :
        /\ CallsLeft
        /\ LET r == insert_organizer(organizers, data, "ok")
           IN  /\ organizers' = r.rows
               /\ orgCalls' = Append(orgCalls, [data |-> data, ret |-> r.ret])
        /\ UNCHANGED <<lateVars, events, evCalls, failedCalls, raceVars, jsonVars, gptVars, searchVars, einVars, parseVars, enrichVars>>

\* insert_organizer with no connection or a failing statement: returns None.
InsertOrganizerFails ==
    \E data \in OrgInputs, store \in StoreOutcomes \ {"ok"} :
        /\ CallsLeft
        /\ LET r == insert_organizer(organizers, data, store)
           IN  /\ organizers' = r.rows
               /\ r.ret = NoId
        /\ failedCalls' = failedCalls + 1
        /\ UNCHANGED <<lateVars, events, orgCalls, evCalls, raceVars, jsonVars, gptVars, searchVars, einVars, parseVars, enrichVars>>

InsertEvent ==
    \E data \in EvInputs, oid \in EvOrganizerIds, store \in StoreOutcomes :
        /\ CallsLeft
        /\ LET r == insert_event(organizers, events, data, oid, store)
           IN  /\ events' = r.rows
               /\ IF r.stored
                  THEN /\ evCalls' = Append(evCalls, [data |-> data, organizer_id |-> oid])
                       /\ UNCHANGED failedCalls
                  ELSE /\ failedCalls' = failedCalls + 1
                       /\ UNCHANGED evCalls
        /\ UNCHANGED <<lateVars, organizers, orgCalls, raceVars, jsonVars, gptVars, searchVars, einVars, parseVars, enrichVars>>

NextUpsert == InsertOrganizer \/ InsertOrganizerFails \/ InsertEvent

SpecUpsert == InitUpsert /\ [][NextUpsert]_vars

\* The identity key as the specification defines it: each key field
\* lower-cased and trimmed.
NormField(v) == IF v = None THEN None ELSE Strip(Lower(PyStr(v)))

OrgKey(name, website) == <<NormField(name), NormField(website)>>

OrgKeyOf(data) == OrgKey(Get(data, "organizer_name"), Get(data, "organizer_website"))

\* Call i is the first answered insert_organizer call with its identity key.
FirstOrgCall(i) ==
    \A k \in 1..(i - 1) : OrgKeyOf(orgCalls[k].data) # OrgKeyOf(orgCalls[i].data)

\* C1: two insert_organizer calls whose (organizer_name, organizer_website)
\* differ only by letter case or surrounding whitespace return the same id,
\* leave exactly one organizer row for that identity, and the row keeps the
\* values written by the first call.
C1_IdempotentOrganizerUpsert ==
    \A i, j \in 1..Len(orgCalls) :
        (i < j /\ FirstOrgCall(i) /\ OrgKeyOf(orgCalls[i].data) = OrgKeyOf(orgCalls[j].data))
        => /\ orgCalls[i].ret = orgCalls[j].ret
           /\ Cardinality({r \in organizers :
                  OrgKey(r.name, r.website) = OrgKeyOf(orgCalls[i].data)}) = 1
           /\ WithId(organizer_values(orgCalls[i].data), orgCalls[i].ret) \in organizers

\* Call i is the first stored insert_event call with its uid.
FirstEvCall(i) ==
    \A k \in 1..(i - 1) : event_uid(evCalls[k].data) # event_uid(evCalls[i].data)

EventRowOfCall(i, id) ==
    WithId(event_values(evCalls[i].data, evCalls[i].organizer_id), id)

\* C2: the events table holds at most one row per uid, the row of every
\* inserted identity exists, and each row holds the values (organizer_id
\* included) of the first insert with that uid.
C2_EventFirstWriteWins ==
    /\ \A r1, r2 \in events : r1.uid = r2.uid => r1 = r2
    /\ \A i \in 1..Len(evCalls) :
           \E r \in events : r.uid = event_uid(evCalls[i].data)
    /\ \A r \in events :
           \E i \in 1..Len(evCalls) :
               /\ FirstEvCall(i)
               /\ r = EventRowOfCall(i, r.id)

\* Two stored inserts of one identity that supplied different values, the
\* organizer_id among them.
C2_Witness ==
    \E i, j \in 1..Len(evCalls) :
        /\ i < j
        /\ FirstEvCall(i)
        /\ event_uid(evCalls[i].data) = event_uid(evCalls[j].data)
        /\ evCalls[i].data.event_name # evCalls[j].data.event_name
        /\ evCalls[i].organizer_id # evCalls[j].organizer_id
        /\ \E r \in events : r = EventRowOfCall(i, r.id)

----
\* ------------------------------- concurrent insert_organizer calls

\* Number of pipeline runs calling insert_organizer at the same time.
MaxCallers == 2

Callers == 1..MaxCallers

RaceInputs ==
    {[organizer_name |-> n, organizer_website |-> <<"x">>, organizer_ein |-> e] :
        n \in OrgNames, e \in OrgEins}

InitRace ==
    /\ organizers = {}
    /\ UpsertIdle
    /\ rpc = [p \in Callers |-> "connect"]
    /\ rdata \in [Callers -> RaceInputs]
    /\ rret = [p \in Callers |-> NoId]
    /\ rtx = [p \in Callers |-> NoTx]
    /\ rorder = <<>>
    /\ JsonIdle
    /\ GptIdle
    /\ SearchIdle
    /\ EinIdle
    /\ ParseIdle
    /\ EnrichIdle
    /\ LateIdle

\* Rows other open transactions have inserted and not yet committed.
PendingRows == UNION {rtx[p].pending : p \in Callers}

\* create_connection(): a connection, or None and insert_organizer returns None.
RaceConnect(p) ==
    /\ rpc[p] = "connect"
    /\ \/ rpc' = [rpc EXCEPT ![p] = "execute"]
       \/ rpc' = [rpc EXCEPT ![p] = "done"]
    /\ UNCHANGED <<lateVars, dbVars, upVars, rdata, rret, rtx, rorder, jsonVars, gptVars, searchVars, einVars, parseVars, enrichVars>>

\* cursor.execute(sql): the statement takes the lock of its uid in the UNIQUE
\* index, so it waits while another open transaction holds that uid; it then
\* sees the committed rows and inserts or resolves.
RaceExecute(p) ==
    /\ rpc[p] = "execute"
    /\ LET values == organizer_values(rdata[p])
           seen == organizers \cup PendingRows
           r == organizers_upsert(seen, values)
       IN  /\ \A q \in Callers \ {p} : rtx[q].lock # values.uid
           /\ rtx' = [rtx EXCEPT ![p] =
                  [pending |-> r.rows \ seen, lastrowid |-> r.lastrowid, lock |-> values.uid]]
    /\ rpc' = [rpc EXCEPT ![p] = "commit"]
    /\ rorder' = Append(rorder, p)
    /\ UNCHANGED <<lateVars, dbVars, upVars, rdata, rret, jsonVars, gptVars, searchVars, einVars, parseVars, enrichVars>>

\* cursor.execute raised mysql Error: organizer_id = None.
RaceExecuteError(p) ==
    /\ rpc[p] = "execute"
    /\ rpc' = [rpc EXCEPT ![p] = "done"]
    /\ UNCHANGED <<lateVars, dbVars, upVars, rdata, rret, rtx, rorder, jsonVars, gptVars, searchVars, einVars, parseVars, enrichVars>>

\* conn.commit(); organizer_id = cursor.lastrowid; close; return.
RaceCommit(p) ==
    /\ rpc[p] = "commit"
    /\ organizers' = organizers \cup rtx[p].pending
    /\ rret' = [rret EXCEPT ![p] = rtx[p].lastrowid]
    /\ rtx' = [rtx EXCEPT ![p] = NoTx]
    /\ rpc' = [rpc EXCEPT ![p] = "done"]
    /\ UNCHANGED <<lateVars, events, upVars, rdata, rorder, jsonVars, gptVars, searchVars, einVars, parseVars, enrichVars>>

\* conn.commit() raised: the transaction is rolled back when the connection
\* closes, organizer_id = None.
RaceCommitError(p) ==
    /\ rpc[p] = "commit"
    /\ rtx' = [rtx EXCEPT ![p] = NoTx]
    /\ rpc' = [rpc EXCEPT ![p] = "done"]
    /\ UNCHANGED <<lateVars, dbVars, upVars, rdata, rret, rorder, jsonVars, gptVars, searchVars, einVars, parseVars, enrichVars>>

NextRace ==
    \E p \in Callers :
        \/ RaceConnect(p)
        \/ RaceExecute(p)
        \/ RaceExecuteError(p)
        \/ RaceCommit(p)
        \/ RaceCommitError(p)

SpecRace == InitRace /\ [][NextRace]_vars

\* Callers that have returned an id.
Answered == {p \in Callers : rpc[p] = "done" /\ rret[p] # NoId}

\* The answered caller whose INSERT reached the store first.
FirstAnswered(uid) ==
    LET idx == {i \in 1..Len(rorder) :
                   rorder[i] \in Answered /\ organizer_uid(rdata[rorder[i]]) = uid}
    IN  rorder[CHOOSE i \in idx : \A k \in idx : i <= k]

\* C3: concurrent upserts of one identity, in every interleaving, leave at
\* most one row for it; all callers that got an id got the same id, exactly
\* one row holds the identity, and its fields are those of the insert that
\* reached the store first.
C3_ConcurrentUpsertOneRow ==
    /\ \A r1, r2 \in organizers : r1.uid = r2.uid => r1 = r2
    /\ \A p \in Answered :
           LET uid == organizer_uid(rdata[p])
               first == FirstAnswered(uid)
           IN  /\ rret[p] = rret[first]
               /\ {r \in organizers : r.uid = uid}
                      = {WithId(organizer_values(rdata[first]), rret[p])}

\* Two callers with case/whitespace variants of one identity and different
\* field values have both returned an id.
C3_Witness ==
    \E p, q \in Answered :
        /\ p # q
        /\ organizer_uid(rdata[p]) = organizer_uid(rdata[q])
        /\ rdata[p].organizer_name # rdata[q].organizer_name
        /\ rdata[p].organizer_ein # rdata[q].organizer_ein
        /\ Len(rorder) >= 2
        /\ rorder[1] = q
        /\ rorder[2] = p

----
\* ------------------------------------------ safe_json on every text

\* Length of the completions enumerated piece by piece.
MaxTextLen == 3

Pieces ==
    {Fence, "json", "\n", "{", "}", "[", "]", MemberDQ, MemberSQ, StringDQ, "0", "null", "w"}

ShortTexts == UNION {[1..n -> Pieces] : n \in 0..MaxTextLen}

\* Longer completions: an object in a json fence (lower and upper case tag),
\* an object between, after and before commentary, a single-quoted object
\* in a fence, a list
\* of one object, a list of one number in a fence.
LongTexts ==
    {<<Fence, "json", "\n", "{", MemberDQ, "}", "\n", Fence>>,
     <<Fence, "JSON", "\n", "{", MemberDQ, "}", "\n", Fence>>,
     <<"w", " ", "{", MemberDQ, "}", " ", "w">>,
     <<"w", " ", "{", MemberDQ, "}">>,
     <<"{", MemberDQ, "}", " ", "w">>,
     <<Fence, "\n", "{", MemberSQ, "}", "\n", Fence>>,
     <<"[", "{", MemberDQ, "}", "]">>,
     <<Fence, "json", "\n", "[", "0", "]", "\n", Fence>>}

Texts == ShortTexts \cup LongTexts

InitJson ==
    /\ jtext \in Texts
    /\ jpc = "call"
    /\ jresult = EmptyMap
    /\ organizers = {}
    /\ UpsertIdle
    /\ RaceIdle
    /\ GptIdle
    /\ SearchIdle
    /\ EinIdle
    /\ ParseIdle
    /\ EnrichIdle
    /\ LateIdle

SafeJsonCall ==
    /\ jpc = "call"
    /\ jresult' = safe_json(jtext)
    /\ jpc' = "returned"
    /\ UNCHANGED <<lateVars, dbVars, upVars, raceVars, gptVars, searchVars, einVars, parseVars, enrichVars, jtext>>

NextJson == SafeJsonCall

SpecJson == InitJson /\ [][NextJson]_vars

\* C6: for every input text safe_json returns a mapping: the decoded object
\* or the empty mapping.
C6_SafeJsonReturnsMapping ==
    jpc = "returned" => jresult.type = "dict"

----
\* ------------------------------------------------- gpt_call, one call

GptTexts ==
    {<<>>,
     <<"w">>,
     <<"{", "}">>,
     <<"{", MemberDQ, "}">>,
     <<Fence, "json", "\n", "{", MemberDQ, "}", "\n", Fence>>,
     <<"{", MemberSQ, "}">>,
     <<"[", "0", "]">>,
     <<StringDQ>>}

GptErrors == {{"rate limit"}, {"503"}, {"invalid api key"}}

GptOutcomes == {Completion(t) : t \in GptTexts} \cup {Raised(m) : m \in GptErrors}

InitGpt ==
    /\ gpc = "loop"
    /\ gattempt = 1
    /\ ghist = <<>>
    /\ gsleeps = <<>>
    /\ gret = EmptyMap
    /\ organizers = {}
    /\ UpsertIdle
    /\ RaceIdle
    /\ JsonIdle
    /\ SearchIdle
    /\ EinIdle
    /\ ParseIdle
    /\ EnrichIdle
    /\ LateIdle

\* One pass through the body of "for attempt in range(1, max_retries + 1)",
\* and the "return {}" after the loop when it was the last one.
GptAttempt ==
    \E outcome \in GptOutcomes :
        /\ gpc = "loop"
        /\ gattempt <= MAX_GPT_RETRIES
        /\ LET it == gpt_iteration(gattempt, outcome)
           IN  /\ ghist' = Append(ghist, outcome)
               /\ gsleeps' = gsleeps \o it.sleeps
               /\ IF it.next = "return"
                  THEN gpc' = "done" /\ gret' = it.value /\ UNCHANGED gattempt
                  ELSE IF it.next = "break" \/ gattempt = MAX_GPT_RETRIES
                  THEN gpc' = "done" /\ gret' = EmptyMap /\ UNCHANGED gattempt
                  ELSE gpc' = "loop" /\ gattempt' = gattempt + 1 /\ UNCHANGED gret
        /\ UNCHANGED <<lateVars, dbVars, upVars, raceVars, jsonVars, searchVars, einVars, parseVars, enrichVars>>

NextGpt == GptAttempt

SpecGpt == InitGpt /\ [][NextGpt]_vars

\* An error the claim calls rate-limit or transient.
RetryableOutcome(o) == o.kind = "error" /\ (is_rate_limit(o.msg) \/ is_transient(o.msg))

Backoffs == SelectSeq(gsleeps, LAMBDA z : z.kind = "backoff")

\* The retry discipline of gpt_call: at most MAX_GPT_RETRIES calls, a further
\* call only after a rate-limit or transient error, one backoff sleep per
\* such error, and any other outcome ends the call at once.
GptRetryDiscipline ==
    /\ Len(ghist) <= MAX_GPT_RETRIES
    /\ \A i \in 2..Len(ghist) : RetryableOutcome(ghist[i - 1])
    /\ Len(Backoffs) = Cardinality({i \in 1..Len(ghist) : RetryableOutcome(ghist[i])})
    /\ \A i \in 1..Len(ghist) :
           ~RetryableOutcome(ghist[i]) => (i = Len(ghist) /\ gpc = "done")
    /\ Len(ghist) = MAX_GPT_RETRIES => gpc = "done"

\* What gpt_call returns: the empty mapping, unless the last attempt produced
\* a non-empty decoded object, which is then returned.
GptReturnsMapping ==
    gpc = "done" =>
        \/ gret = EmptyMap
        \/ /\ gret.type = "dict"
           /\ gret.size > 0
           /\ ghist[Len(ghist)].kind = "text"
           /\ gret = safe_json(ghist[Len(ghist)].text)

\* C9: parser.gpt_call calls the model at most MAX_GPT_RETRIES times, retries
\* only after a rate-limit or transient error with one backoff sleep before
\* each retry, stops at once on any other error, and returns the empty
\* mapping unless an attempt produced a non-empty decoded object.
C9_GptCallRetryAndResult == GptRetryDiscipline /\ GptReturnsMapping

----
\* ------------------------------------------- unified_search, one call

\* Length of the result lists a provider answers with.
MaxResults == 2

PlainItem == [title |-> <<"w">>, link |-> <<"u1">>, snippet |-> <<"w">>]
SnippetEinItem == [title |-> <<"w">>, link |-> <<"u1">>, snippet |-> <<"w", EinA>>]
TitleEinItem == [title |-> <<EinB>>, link |-> None, snippet |-> <<>>]
UntitledItem == [title |-> None, link |-> <<"u2">>, snippet |-> <<>>]

Items == {PlainItem, SnippetEinItem, TitleEinItem, UntitledItem}

ResultLists == UNION {[1..n -> Items] : n \in 0..MaxResults}

ProviderAnswers == {Fails} \cup {Answer(l) : l \in ResultLists}

HttpAnswers == {Fails, Answer(<<>>), Answer(<<PlainItem>>)}

Worlds ==
    [serp_ready : BOOLEAN, serp : ProviderAnswers, cse_ready : BOOLEAN,
     client_installed : BOOLEAN, client : ProviderAnswers, http : HttpAnswers]

InitSearch ==
    /\ spc = "call"
    /\ sworld \in Worlds
    /\ sres = NoSearch
    /\ organizers = {}
    /\ UpsertIdle
    /\ RaceIdle
    /\ JsonIdle
    /\ GptIdle
    /\ EinIdle
    /\ ParseIdle
    /\ EnrichIdle
    /\ LateIdle

UnifiedSearch ==
    /\ spc = "call"
    /\ sres' = unified_search(sworld)
    /\ spc' = "returned"
    /\ UNCHANGED <<lateVars, dbVars, upVars, raceVars, jsonVars, gptVars, einVars, parseVars, enrichVars, sworld>>

NextSearch == UnifiedSearch

SpecSearch == InitSearch /\ [][NextSearch]_vars

\* What the primary provider produced: its items, none when it is not set
\* up or fails.
PrimaryProduced(w) == IF w.serp_ready /\ w.serp.ok THEN w.serp.items ELSE <<>>

PrimaryWorks(w) == w.serp_ready /\ w.serp.ok

SecondaryWorks(w) ==
    w.cse_ready /\ ((w.client_installed /\ w.client.ok) \/ w.http.ok)

SecondaryInvoked(r) == \E i \in 1..Len(r.calls) : r.calls[i] = "google_cse_search"

\* C7: unified_search never raises; it invokes Google CSE exactly when
\* SerpAPI produced no result (an error counting as none); it returns the
\* primary's results when there are some, else the secondary's, and the
\* empty list when no provider works.
C7_UnifiedSearchFailover ==
    spc = "returned" =>
        /\ ~sres.raised
        /\ SecondaryInvoked(sres) <=> PrimaryProduced(sworld) = <<>>
        /\ PrimaryProduced(sworld) # <<>> => sres.results = PrimaryProduced(sworld)
        /\ PrimaryProduced(sworld) = <<>> => sres.results = sres.secondary
        /\ (~PrimaryWorks(sworld) /\ ~SecondaryWorks(sworld)) => sres.results = <<>>

\* The primary failed and the secondary answered with results, which were
\* returned.
C7_Witness ==
    /\ spc = "returned"
    /\ sworld.serp_ready
    /\ ~sworld.serp.ok
    /\ SecondaryInvoked(sres)
    /\ sres.results # <<>>
    /\ sres.results = sworld.client.items

----
\* ------------------------------------ search_ein_multisource, one call

Links == {<<"u1">>, <<"u2">>}

PageAnswers ==
    {[ok |-> FALSE, html |-> <<>>],
     [ok |-> TRUE, html |-> <<>>],
     [ok |-> TRUE, html |-> <<"w">>],
     [ok |-> TRUE, html |-> <<"w", EinB, EinA>>]}

\* The providers during an EIN query: one of them has the results.
EinWorlds ==
    {w \in Worlds :
        /\ w.http = Fails
        /\ w.cse_ready
        /\ w.client_installed
        /\ w.serp_ready => (w.serp = Fails \/ w.client = Fails)
        /\ ~w.serp_ready => w.serp = Fails}

EinOrgNames == {"Example Foundation", "Harbor Trust"}

InitEin ==
    /\ epc = "run"
    /\ ename \in EinOrgNames
    /\ equeries = <<>>
    /\ elast = NoQuery
    /\ eret = None
    /\ organizers = {}
    /\ UpsertIdle
    /\ RaceIdle
    /\ JsonIdle
    /\ GptIdle
    /\ SearchIdle
    /\ ParseIdle
    /\ EnrichIdle
    /\ LateIdle

\* One query of search_ein_multisource: search_site_for_ein on the next
\* query text, then return or go on.
EinQuery ==
    \E w \in EinWorlds, pages \in [Links -> PageAnswers] :
        /\ epc = "run"
        /\ LET i == Len(equeries) + 1
               r == search_site_for_ein(w, pages)
               after == multisource_after(i, r.ein)
           IN  /\ equeries' = Append(equeries,
                      [query |-> multisource_query(i, ename),
                       snippet_ein |-> ScanSnippets(r.results),
                       ein |-> r.ein])
               /\ elast' = [results |-> r.results, fetched |-> r.fetched]
               /\ epc' = IF after.done THEN "done" ELSE "run"
               /\ eret' = after.ret
        /\ UNCHANGED <<lateVars, dbVars, upVars, raceVars, jsonVars, gptVars, searchVars, parseVars, enrichVars, ename>>

NextEin == EinQuery

SpecEin == InitEin /\ [][NextEin]_vars

QuerySuffixes ==
    <<"site:projects.propublica.org OR site:apps.irs.gov",
      "site:causeiq.com",
      "site:charitynavigator.org",
      "nonprofit EIN">>

\* C8: the queries are issued in the fixed order ProPublica/IRS, CauseIQ,
\* Charity Navigator, generic; no query follows a query that matched; the
\* value returned is the match of the last query issued, and no match is
\* returned only after all four; when a snippet of the first query holds
\* 12-3456789 that value is returned after one query.
C8_EinQueryOrderShortCircuit ==
    /\ Len(equeries) <= Len(QuerySuffixes)
    /\ \A i \in 1..Len(equeries) : equeries[i].query = <<ename, QuerySuffixes[i]>>
    /\ \A i \in 1..(Len(equeries) - 1) : equeries[i].ein = None
    /\ epc = "run" => \A i \in 1..Len(equeries) : equeries[i].ein = None
    /\ epc = "done" =>
           /\ eret = equeries[Len(equeries)].ein
           /\ eret = None => Len(equeries) = Len(QuerySuffixes)
    /\ (Len(equeries) >= 1 /\ equeries[1].snippet_ein = <<EinA>>) =>
           (epc = "done" /\ eret = <<EinA>> /\ Len(equeries) = 1)

\* The third query matched after two queries without a match.
C8_Witness ==
    /\ epc = "done"
    /\ Len(equeries) = 3
    /\ eret = <<EinA>>
    /\ equeries[1].ein = None
    /\ equeries[2].ein = None

\* The scenario of the claim: the first query's snippet holds 12-3456789.
C8_WitnessScenario ==
    /\ epc = "done"
    /\ Len(equeries) = 1
    /\ equeries[1].snippet_ein = <<EinA>>
    /\ eret = <<EinA>>

----
\* ------------------------------------------------ process_links runs

\* What gpt_call can return besides a dict: the types safe_json decodes a
\* completion to.
ReturnedTypes == {gpt_iteration(1, Completion(t)).value.type : t \in GptTexts}
NonDictValues == {PyOther(ty) : ty \in ReturnedTypes \ {"dict"}}

FieldIndex(f) == CHOOSE i \in 1..Len(REQUIRED_FIELDS) : REQUIRED_FIELDS[i] = f

FillValue(f, word) == IF f = "event_date" THEN DateText ELSE <<word>>

\* A record whose first n required fields hold a word; the other fields
\* hold the empty string, or are absent.
Filled(n, word, rest_present) ==
    [f \in {g \in FieldSet : rest_present \/ FieldIndex(g) <= n} |->
        IF FieldIndex(f) <= n THEN FillValue(f, word) ELSE <<>>]

WithField(rec, k, v) == [f \in DOMAIN rec \cup {k} |-> IF f = k THEN v ELSE rec[f]]

Page(ok, title) == [ok |-> ok, title |-> title]
Parsed(value) == [raised |-> FALSE, value |-> value]
ParseRaises == [raised |-> TRUE, value |-> PyDict(NoFields)]
Deep(candidates, synth) == [candidates |-> candidates, synth |-> synth]

\* The batch_limit arguments: one link, and more than there are links.
DefaultBatchLimit == 1000
BatchLimits == {1, DefaultBatchLimit}

\* StartRun: process_links up to the loop. Without a connection
\* fetch_unprocessed_links raises; with no unprocessed link the run returns.
StartRun ==
    \E conn \in {"ok", "no_conn"}, limit \in BatchLimits :
        \E links \in fetch_unprocessed_links(raw_links, parse_logs, limit) :
            /\ ppc = "idle"
            /\ pruns < pmaxruns
            /\ pruns' = pruns + 1
            /\ IF conn = "no_conn"
               THEN ppc' = "idle" /\ pbatch' = {} /\ pprev' = "crashed"
               ELSE IF links = {}
               THEN ppc' = "idle" /\ pbatch' = {} /\ pprev' = "completed"
               ELSE ppc' = "running" /\ pbatch' = links /\ pprev' = pprev
            /\ UNCHANGED <<lateVars, dbVars, upVars, raceVars, jsonVars, gptVars, searchVars, einVars,
                           enrichVars, raw_links, parse_logs, pmaxruns, pfetches, pextracts,
                           plogfailed, plast>>

\* HandleLink: one pass through the loop body, for a link of the batch;
\* an exception that leaves the loop ends the run.
HandleLink(Inputs) ==
    \E id \in pbatch, in \in Inputs :
        /\ ppc = "running"
        /\ LET r == process_link(id, in, organizers, events)
               logs == log_all(parse_logs, r.rows, in.log_stores)
           IN  /\ parse_logs' = logs
               /\ plogfailed' = (plogfailed \/ Len(logs) # Len(parse_logs) + Len(r.rows))
               /\ organizers' = r.orgs
               /\ events' = r.evs
               /\ plast' = r.did
               /\ pfetches' = [pfetches EXCEPT ![id] = @ + 1]
               /\ pextracts' = [pextracts EXCEPT ![id] = IF r.extracted THEN @ + 1 ELSE @]
               /\ IF r.crashed
                  THEN ppc' = "idle" /\ pbatch' = {} /\ pprev' = "crashed"
                  ELSE IF pbatch = {id}
                  THEN ppc' = "idle" /\ pbatch' = {} /\ pprev' = "completed"
                  ELSE ppc' = "running" /\ pbatch' = pbatch \ {id} /\ pprev' = pprev
        /\ UNCHANGED <<lateVars, upVars, raceVars, jsonVars, gptVars, searchVars, einVars,
                       enrichVars, raw_links, pruns, pmaxruns>>

InitLinks(n, runs) ==
    /\ raw_links = 1..n
    /\ parse_logs = <<>>
    /\ ppc = "idle"
    /\ pbatch = {}
    /\ pruns = 0
    /\ pmaxruns = runs
    /\ pprev = "none"
    /\ pfetches = [id \in 1..n |-> 0]
    /\ pextracts = [id \in 1..n |-> 0]
    /\ plogfailed = FALSE
    /\ plast = NoLink
    /\ organizers = {}
    /\ events = {}
    /\ UpsertIdle
    /\ RaceIdle
    /\ JsonIdle
    /\ GptIdle
    /\ SearchIdle
    /\ EinIdle
    /\ LateIdle

----
\* ------------------------------- process_links, one link, many records

FillCounts == {0, 5, 23, 24, 27}

FieldValues == {<<"x">>, <<" ">>, None, Zero, FalseV, EmptyList}

\* Single-pass records: the filled prefixes, and those with one more field
\* holding each kind of value.
FirstRecords ==
    {Filled(n, "x", rest) : n \in FillCounts, rest \in BOOLEAN}
        \cup {WithField(Filled(n, "x", rest), "venue_parking", v) :
                  n \in FillCounts \ {27}, rest \in BOOLEAN, v \in FieldValues}

\* Syntheses: nothing, every field, and a mix of kinds of value.
MixedSynth ==
    [venue_parking |-> <<"y">>, dress_code |-> <<" ">>, event_type |-> None,
     event_name |-> Zero, sponsorship_url |-> <<"y">>, extra |-> <<"y">>]

SynthValues ==
    {PyDict(NoFields), PyDict(Filled(27, "y", TRUE)), PyDict(MixedSynth)} \cup NonDictValues

RecordInputs ==
    [page : {Page(FALSE, None), Page(TRUE, None), Page(TRUE, <<"T">>)},
     parse : {ParseRaises} \cup {Parsed(PyDict(r)) : r \in FirstRecords}
                 \cup {Parsed(v) : v \in NonDictValues},
     deep : {Deep(FALSE, PyDict(NoFields)), Deep(FALSE, PyDict(Filled(27, "y", TRUE)))}
                \cup {Deep(TRUE, v) : v \in SynthValues},
     org_store : {"ok", "error", "raise"},
     ev_store : {"ok"},
     log_stores : {<<"ok", "ok">>, <<"no_conn", "no_conn">>}]

InitParse == InitLinks(1, 1) /\ EnrichIdle

HandleRecord == HandleLink(RecordInputs)

NextParse == StartRun \/ HandleRecord

SpecParse == InitParse /\ [][NextParse]_vars

\* A value that is not empty: not null, not an empty or blank string, not
\* an empty list.
NonEmpty(v) == v \notin {None, EmptyList} /\ Strip(PyStr(v)) # <<>>

\* C4: when process_links merges the supplement into the single-pass
\* record, every field that held a non-empty value before the merge holds
\* the same value after it.
C4_MergeKeepsNonEmptyFields ==
    plast.merged =>
        \A k \in DOMAIN plast.before :
            NonEmpty(plast.before[k]) =>
                (k \in DOMAIN plast.after /\ plast.after[k] = plast.before[k])

\* C5: deep_synthesize_fields is invoked for a link exactly when the count
\* of missing required fields after the single-pass extraction is at least
\* MISSING_FIELDS_THRESHOLD: with 4 missing it is, with 3 it is not.
C5_EscalationThreshold ==
    /\ plast.escalated <=> (plast.counted /\ plast.missing >= 4)
    /\ plast.counted =>
           plast.missing = Cardinality({k \in FieldSet : IsMissing(Get(plast.before, k))})

\* Exactly 4 fields were missing and the escalation ran.
C5_Witness ==
    /\ plast.counted
    /\ plast.missing = 4
    /\ plast.escalated

\* Exactly 3 fields were missing and the escalation did not run.
C5_WitnessBelow ==
    /\ plast.counted
    /\ plast.missing = 3
    /\ ~plast.escalated

----
\* ----------------------------- process_links, several links and runs
\* The runs are those in which every log write reaches the table.

MaxLinks == 2
MaxRuns == 2

RunInputs ==
    [page : {Page(FALSE, None), Page(TRUE, <<"T">>)},
     parse : {Parsed(PyDict(Filled(27, "x", TRUE))), Parsed(PyDict(NoFields))}
                 \cup {Parsed(v) : v \in NonDictValues},
     deep : {Deep(FALSE, PyDict(NoFields))},
     org_store : {"ok", "error"},
     ev_store : {"ok"},
     log_stores : {<<"ok", "ok">>}]

InitRuns == InitLinks(MaxLinks, MaxRuns) /\ EnrichIdle

HandleBatchLink == HandleLink(RunInputs)

NextRuns == StartRun \/ HandleBatchLink

SpecRuns == InitRuns /\ [][NextRuns]_vars

\* C10: a raw link with a parse log entry is not selected again, and as
\* long as the log writes succeed each raw link is fetched and extracted
\* at most once over all runs.
C10_LinkHandledOnce ==
    /\ \A id \in pbatch : id \notin LoggedIds(parse_logs)
    /\ ~plogfailed =>
           \A id \in raw_links : pfetches[id] <= 1 /\ pextracts[id] <= 1

\* C11: no per-link failure stops the loop of process_links: the handling
\* of a link never leaves the loop by an exception, so the run goes on to
\* the other selected links.
C11_LoopSurvivesLinkFailure ==
    plast.outcome # "crashed"

----
\* ------------------------------------------------ enrich_data runs

\* Largest limit given to enrich_data; number of records stored before it.
MaxLimit == 2
MaxRecords == 2

\* A record as process_links stores it: named, the other organizer fields
\* all filled or all NULL, and so the other event fields.
SeedData(name, org_full, ev_full) ==
    [f \in FieldSet |->
        IF f \in {"organizer_name", "event_name"} THEN name
        ELSE IF FieldIndex(f) > FieldIndex("organizer_name")
        THEN (IF org_full THEN <<"x">> ELSE None)
        ELSE (IF ev_full THEN <<"x">> ELSE None)]

Seeds ==
    {SeedData(<<"b">>, FALSE, FALSE), SeedData(<<"c">>, TRUE, FALSE),
     SeedData(<<"d">>, FALSE, TRUE)}

RECURSIVE Stored(_)
Stored(recs) ==
    IF recs = <<>> THEN [orgs |-> {}, evs |-> {}]
    ELSE LET before == Stored(SubSeq(recs, 1, Len(recs) - 1))
             data == recs[Len(recs)]
             o == insert_organizer(before.orgs, data, "ok")
             e == insert_event(o.rows, before.evs, data, o.ret, "ok")
         IN  [orgs |-> o.rows, evs |-> e.rows]

SeedTables == {Stored(recs) : recs \in UNION {[1..n -> Seeds] : n \in 0..MaxRecords}}

Locator(raised, ein) == [raised |-> raised, ein |-> ein]
Locators == {Locator(FALSE, None), Locator(FALSE, <<"1", "2">>), Locator(TRUE, None)}

\* What the social prompt may come back as.
SocialAnswers ==
    {PyDict(NoFields),
     PyDict([k \in {"facebook", "instagram", "contact_title"} |->
                IF k = "instagram" THEN <<>> ELSE <<"f">>]),
     PyDict([k \in {"facebook", "instagram", "contact_title"} |-> <<"f">>]),
     PyOther("NoneType"), PyOther("list")}

OrganizerInputs ==
    [locator : Locators, enrich : SocialAnswers, ein_store : {"ok", "error"},
     log_store : {"ok", "no_conn"}, update_store : {"ok", "no_conn", "error"}]

\* What the event prompt may come back as.
EventAnswers ==
    {PyDict(NoFields),
     PyDict([k \in {"description", "event_type"} |->
                IF k = "event_type" THEN <<>> ELSE <<"y">>]),
     PyDict([k \in {ENRICH_EVENT_FIELDS[i] : i \in 1..Len(ENRICH_EVENT_FIELDS)} |-> <<"y">>]),
     PyOther("NoneType"), PyOther("list")}

EventInputs ==
    [enrich : EventAnswers, log_store : {"ok"}, update_store : {"ok", "no_conn", "error"}]

\* enrich_data starts once the parser script of the pipeline has ended.
ParserEnded == ppc = "idle" /\ pruns = pmaxruns

InitEnrichData ==
    /\ ein_logs = <<>>
    /\ xpc = "loop"
    /\ xlimit \in 0..MaxLimit
    /\ xprocessed = 0
    /\ xpassbase = 0
    /\ xorgbatch = {}
    /\ xevbatch = {}
    /\ xselected = FALSE
    /\ xlast = NoRecord

InitEnrich ==
    /\ \E t \in SeedTables : organizers = t.orgs /\ events = t.evs
    /\ orgCalls = <<>>
    /\ evCalls = <<>>
    /\ failedCalls = 0
    /\ RaceIdle
    /\ JsonIdle
    /\ GptIdle
    /\ SearchIdle
    /\ EinIdle
    /\ ParseIdle
    /\ InitEnrichData
    /\ LateIdle

\* while processed < limit: orgs = fetch_organizers_to_enrich(batch_size=8)
EnrichPassStart ==
    /\ xpc = "loop"
    /\ ParserEnded
    /\ IF ~budget_left(xprocessed, xlimit)
       THEN xpc' = "done" /\ UNCHANGED <<xorgbatch, xselected, xpassbase>>
       ELSE \E conn \in {"ok", "no_conn"} :
                IF conn = "no_conn"
                THEN xpc' = "crashed" /\ UNCHANGED <<xorgbatch, xselected, xpassbase>>
                ELSE \E b \in fetch_organizers_to_enrich(organizers) :
                        /\ xpc' = "orgs"
                        /\ xorgbatch' = b
                        /\ xselected' = (b # {})
                        /\ xpassbase' = xprocessed
    /\ UNCHANGED <<lateVars, dbVars, upVars, raceVars, jsonVars, gptVars, searchVars, einVars, parseVars,
                   ein_logs, xlimit, xprocessed, xevbatch, xlast>>

\* The next row of a batch: the rows are iterated in the order of their ids,
\* as the scan of the primary key returned them.
FirstRow(batch) == CHOOSE r \in batch : \A q \in batch : r.id <= q.id

\* for org in orgs: process_single_organizer(org); processed += 1
ProcessOrganizer(Inputs) ==
    /\ xpc = "orgs"
    /\ xorgbatch # {}
    /\ \E org \in {FirstRow(xorgbatch)} : \E in \in Inputs :
        LET r == process_single_organizer(org, in, organizers, ein_logs)
        IN  /\ organizers' = r.orgs
            /\ ein_logs' = r.logs
            /\ xlast' = r.did
            /\ IF r.did.raised
               THEN xpc' = "crashed" /\ UNCHANGED <<xprocessed, xorgbatch>>
               ELSE /\ xpc' = "orgs"
                    /\ xprocessed' = next_processed(xprocessed)
                    /\ xorgbatch' = xorgbatch \ {org}
    /\ UNCHANGED <<lateVars, events, upVars, raceVars, jsonVars, gptVars, searchVars, einVars, parseVars,
                   xlimit, xpassbase, xevbatch, xselected>>

\* evs = fetch_events_to_enrich(batch_size=8)
EnrichSelectEvents ==
    /\ xpc = "orgs"
    /\ xorgbatch = {}
    /\ \E conn \in {"ok", "no_conn"} :
        IF conn = "no_conn"
        THEN xpc' = "crashed" /\ UNCHANGED <<xevbatch, xselected>>
        ELSE \E b \in fetch_events_to_enrich(events) :
                /\ xpc' = "evs"
                /\ xevbatch' = b
                /\ xselected' = (xselected \/ b # {})
    /\ UNCHANGED <<lateVars, dbVars, upVars, raceVars, jsonVars, gptVars, searchVars, einVars, parseVars,
                   ein_logs, xlimit, xprocessed, xpassbase, xorgbatch, xlast>>

\* for ev in evs: process_single_event(ev); processed += 1
ProcessEvent(Inputs) ==
    /\ xpc = "evs"
    /\ xevbatch # {}
    /\ \E ev \in {FirstRow(xevbatch)} : \E in \in Inputs :
        LET r == process_single_event(ev, in, events, ein_logs)
        IN  /\ events' = r.evs
            /\ ein_logs' = r.logs
            /\ xlast' = r.did
            /\ IF r.did.raised
               THEN xpc' = "crashed" /\ UNCHANGED <<xprocessed, xevbatch>>
               ELSE /\ xpc' = "evs"
                    /\ xprocessed' = next_processed(xprocessed)
                    /\ xevbatch' = xevbatch \ {ev}
    /\ UNCHANGED <<lateVars, organizers, upVars, raceVars, jsonVars, gptVars, searchVars, einVars,
                   parseVars, xlimit, xpassbase, xorgbatch, xselected>>

\* if not orgs and not evs: break
EnrichPassEnd ==
    /\ xpc = "evs"
    /\ xevbatch = {}
    /\ xpc' = IF pass_ends(xselected) THEN "done" ELSE "loop"
    /\ UNCHANGED <<lateVars, dbVars, upVars, raceVars, jsonVars, gptVars, searchVars, einVars, parseVars,
                   ein_logs, xlimit, xprocessed, xpassbase, xorgbatch, xevbatch, xselected,
                   xlast>>

EnrichOrganizer == ProcessOrganizer(OrganizerInputs)

EnrichEvent == ProcessEvent(EventInputs)

NextEnrich ==
    \/ EnrichPassStart
    \/ EnrichOrganizer
    \/ EnrichSelectEvents
    \/ EnrichEvent
    \/ EnrichPassEnd

SpecEnrich == InitEnrich /\ [][NextEnrich]_vars

\* C12: no failure while a record is enriched stops the loop of enrich_data:
\* the run never leaves the loop by an exception, whether the locator, the
\* language model or the store fails.
C12_EnrichLoopSurvivesFailure ==
    xpc # "crashed"

\* C13: at every point of a run of enrich_data the number of organizers and
\* events processed is at most limit, also when the budget runs out in the
\* middle of a selected batch.
C13_ProcessedWithinLimit ==
    xprocessed <= xlimit

\* enrich_data under a scheduler that lets a step that can be taken be
\* taken: every external call returns.
SpecEnrichFair == InitEnrich /\ [][NextEnrich]_vars /\ WF_vars(NextEnrich)

Terminated == xpc \in {"done", "crashed"}

\* At the end of a pass: the pass raised the processed count exactly when it
\* selected some record.
PassProgress ==
    (xpc = "evs" /\ xevbatch = {}) => (xselected <=> xprocessed > xpassbase)

\* C14: for every limit and every store content enrich_data terminates:
\* every pass either processes a record and raises the processed count or
\* selects nothing and ends the loop, also when the records enriched stay
\* selectable.
C14_EnrichDataTerminates ==
    []PassProgress /\ <>Terminated

\* The loop ended by its budget after more than one pass, with a record that
\* is still selectable.
C14_Witness ==
    /\ xpc = "done"
    /\ xpassbase > 0
    /\ xprocessed >= xlimit
    /\ \E e \in events : EventSelectable(e)

\* The enrichment log entry of an organizer processing with the outcome of
\* the locator: success with the EIN found, failed when none was found or
\* the locator raised.
OutcomeLogged(did) ==
    /\ Len(did.appended) = 1
    /\ did.appended[1].organizer_id = did.id
    /\ IF Truthy(did.located)
       THEN did.appended[1].status = "success" /\ did.appended[1].ein = did.located
       ELSE did.appended[1].status = "failed" /\ did.appended[1].ein = None
    /\ Len(ein_logs) >= 1
    /\ ein_logs[Len(ein_logs)] = did.appended[1]

\* C15 as stated: every organizer processing appends exactly one enrichment
\* log entry for that organizer, whatever the outcome.
C15_OrganizerAlwaysLogged ==
    xlast.kind = "organizer" => OutcomeLogged(xlast)

\* C15: every organizer processing whose log write reaches the store appends
\* exactly one enrichment log entry for that organizer: success with the EIN
\* when the locator found one, failed when it found none or raised. When
\* the log write does not reach the store nothing is appended.
C15_OrganizerLoggedWhenStored ==
    xlast.kind = "organizer" =>
        IF xlast.log_store = "ok" THEN OutcomeLogged(xlast) ELSE xlast.appended = <<>>

\* An organizer whose locator raised got its failed entry, and the
\* processing then left by an exception of the update.
C15_Witness ==
    /\ xlast.kind = "organizer"
    /\ xlast.locator_raised
    /\ xlast.log_store = "ok"
    /\ OutcomeLogged(xlast)
    /\ xlast.raised

\* An organizer whose EIN was found got its success entry.
C15_WitnessFound ==
    /\ xlast.kind = "organizer"
    /\ Truthy(xlast.located)
    /\ OutcomeLogged(xlast)

\* C16: every event processing appends an enrichment log entry for the
\* outcome of the attempt, both when fields were persisted and when the
\* inference returned nothing.
C16_EventLogged ==
    xlast.kind = "event" => Len(xlast.appended) >= 1

\* The parse log entry process_links wrote last for the link handled last.
LastParseLog == parse_logs[Len(parse_logs)]

\* C17: a link whose organizer or event could not be stored gets a parse log
\* entry with status failed; an entry with status success is written only
\* for a link whose organizer and event were stored.
C17_SuccessOnlyWhenStored ==
    (/\ plast.outcome \in {"saved", "save_error"}
     /\ parse_logs # <<>>
     /\ LastParseLog.raw_link_id = plast.id
     /\ ~(plast.organizer_id # NoId /\ plast.event_stored)) =>
        LastParseLog.status = "failed"

\* The link handled last was escalated and the deep search found no
\* candidate URL; the record went on to be saved.
EscalatedWithoutCandidates ==
    /\ plast.outcome \in {"saved", "save_error"}
    /\ plast.escalated
    /\ ~plast.candidates

\* The empty supplement: no language-model call, no exception, nothing
\* merged.
EmptySupplement ==
    /\ ~plast.gpt_called
    /\ ~plast.deep_raised
    /\ plast.supplement = NoFields
    /\ plast.after = plast.before

\* C18 as stated: with zero candidate URLs the supplement is empty and the
\* record persisted has the field values of the single-pass partial record.
C18_PersistedAsExtracted ==
    EscalatedWithoutCandidates =>
        /\ EmptySupplement
        /\ \A f \in DOMAIN plast.before : plast.saved[f] = plast.before[f]

\* C18: with zero candidate URLs deep_synthesize_fields returns the empty
\* supplement without a language-model call and without raising; the merge
\* leaves the single-pass record as it is, and the record persisted is that
\* record normalised (or the fallback record when all fields are missing),
\* as without escalation.
C18_EmptySupplementKeepsRecord ==
    EscalatedWithoutCandidates =>
        /\ EmptySupplement
        /\ IF plast.missing < Len(REQUIRED_FIELDS)
           THEN plast.saved = finalize(plast.before, UrlOf(plast.id))
           ELSE \A f \in FieldSet \ {"event_name", "registration_url"} :
                    plast.saved[f] = None

\* A partial record (5 of 27 fields) escalated without candidates is stored.
C18_Witness ==
    /\ EscalatedWithoutCandidates
    /\ plast.outcome = "saved"
    /\ plast.missing = 22
    /\ plast.organizer_id # NoId
    /\ \E f \in DOMAIN plast.before : plast.saved[f] # plast.before[f]

----
\* ------------------------------------------- one search_site_for_ein call

InitSite ==
    /\ epc = "site"
    /\ ename \in EinOrgNames
    /\ equeries = <<>>
    /\ elast = NoQuery
    /\ eret = None
    /\ organizers = {}
    /\ UpsertIdle
    /\ RaceIdle
    /\ JsonIdle
    /\ GptIdle
    /\ SearchIdle
    /\ ParseIdle
    /\ EnrichIdle
    /\ LateIdle

\* search_site_for_ein(query), with what the providers and the pages answer.
SiteQuery ==
    \E w \in EinWorlds, pages \in [Links -> PageAnswers] :
        /\ epc = "site"
        /\ LET r == search_site_for_ein(w, pages)
           IN  elast' = [results |-> r.results, fetched |-> r.fetched,
                         pages |-> pages, ein |-> r.ein]
        /\ epc' = "returned"
        /\ UNCHANGED <<lateVars, dbVars, upVars, raceVars, jsonVars, gptVars, searchVars, parseVars,
                       enrichVars, ename, equeries, eret>>

NextSite == SiteQuery

SpecSite == InitSite /\ [][NextSite]_vars

\* The links of the results that have one, in the order of the results.
RECURSIVE LinksOf(_)
LinksOf(results) ==
    IF results = <<>> THEN <<>>
    ELSE IF Truthy(Head(results).link)
    THEN <<Head(results).link>> \o LinksOf(Tail(results))
    ELSE LinksOf(Tail(results))

SnippetMatches(r) == Truthy(extract_ein_from_snippet(SnippetAndTitle(r)))

\* The fetch of the page came back with text holding an EIN.
PageMatches(page) == page.ok /\ Truthy(ein_regex_search(page.html))

\* C20: within one EIN query the snippet+title of every result is scanned
\* before any page is fetched: pages are fetched only when no snippet+title
\* matches, one fetch per result in the order of the results, a fetch that
\* fails or matches nothing is skipped, and the query returns no-match
\* (None) when nothing matches.
C20_SnippetsBeforePages ==
    epc = "returned" =>
        LET res == elast.results
            links == LinksOf(res)
            f == elast.fetched
            snippet == \E i \in 1..Len(res) : SnippetMatches(res[i])
        IN  /\ Len(f) <= Len(links)
            /\ f = SubSeq(links, 1, Len(f))
            /\ f # <<>> => ~snippet
            /\ snippet => Truthy(elast.ein) /\ f = <<>>
            /\ \A i \in 1..(Len(f) - 1) : ~PageMatches(elast.pages[f[i]])
            /\ ~Truthy(elast.ein) =>
                  /\ elast.ein = None
                  /\ f = links
                  /\ \A i \in 1..Len(f) : ~PageMatches(elast.pages[f[i]])
            /\ (~snippet /\ Truthy(elast.ein)) =>
                  /\ f # <<>>
                  /\ PageMatches(elast.pages[f[Len(f)]])
                  /\ elast.ein = ein_regex_search(elast.pages[f[Len(f)]].html)

\* No snippet matched, the first page fetch failed and was skipped, the
\* second page held the EIN.
C20_Witness ==
    /\ epc = "returned"
    /\ Len(elast.fetched) = 2
    /\ ~elast.pages[elast.fetched[1]].ok
    /\ PageMatches(elast.pages[elast.fetched[2]])
    /\ Truthy(elast.ein)

\* Nothing matched: every linked result was fetched once and the query
\* returned None.
C20_WitnessNoMatch ==
    /\ epc = "returned"
    /\ Len(elast.fetched) = 2
    /\ elast.ein = None

----
\* ------------------------------------ the pipeline: parser, then enrichment

\* What the pages, the language model and the store answer in a pipeline
\* run: a page that cannot be fetched or a page extracted to a record with
\* only its names, or with a complete event.
PipelineLinkInputs ==
    [page : {Page(FALSE, None), Page(TRUE, <<"T">>)},
     parse : {Parsed(PyDict(SeedData(<<"b">>, FALSE, FALSE))),
              Parsed(PyDict(SeedData(<<"d">>, FALSE, TRUE)))},
     deep : {Deep(FALSE, PyDict(NoFields))},
     org_store : {"ok"},
     ev_store : {"ok"},
     log_stores : {<<"ok", "ok">>}]

PipelineOrganizerInputs ==
    [locator : {Locator(FALSE, None), Locator(FALSE, <<"1", "2">>)},
     enrich : {PyDict(NoFields),
               PyDict([k \in {"facebook", "instagram", "contact_title"} |-> <<"f">>])},
     ein_store : {"ok"},
     log_store : {"ok", "no_conn"},
     update_store : {"ok"}]

PipelineEventInputs ==
    [enrich : {PyDict(NoFields),
               PyDict([k \in {ENRICH_EVENT_FIELDS[i] : i \in 1..Len(ENRICH_EVENT_FIELDS)} |->
                          <<"y">>])},
     log_store : {"ok"},
     update_store : {"ok"}]

\* main: process_links on the raw links, then enrich_data.
InitPipeline == InitLinks(MaxRecords, 1) /\ InitEnrichData

PipelineLink == HandleLink(PipelineLinkInputs)

PipelineOrganizer == ProcessOrganizer(PipelineOrganizerInputs)

PipelineEvent == ProcessEvent(PipelineEventInputs)

NextPipeline ==
    \/ StartRun
    \/ PipelineLink
    \/ EnrichPassStart
    \/ PipelineOrganizer
    \/ EnrichSelectEvents
    \/ PipelineEvent
    \/ EnrichPassEnd

SpecPipeline == InitPipeline /\ [][NextPipeline]_vars

IsPrefix(s, t) == Len(s) <= Len(t) /\ s = SubSeq(t, 1, Len(s))

\* C19: the parse log and the enrichment log are append-only: every step
\* of the pipeline leaves each log an extension of what it was, so no entry
\* is ever modified or removed, while organizer and event rows may change.
C19_LogsAppendOnly ==
    [][IsPrefix(parse_logs, parse_logs') /\ IsPrefix(ein_logs, ein_logs')]_vars

\* Both logs hold entries, an organizer was logged twice, and its row was
\* changed by the enrichment after it was stored.
C19_Witness ==
    /\ parse_logs # <<>>
    /\ \E i, j \in 1..Len(ein_logs) :
          i < j /\ ein_logs[i].organizer_id = ein_logs[j].organizer_id
    /\ \E o \in organizers : o.ein = <<"1", "2">>

----
\* ------------------------------------------------ safe_json, the scenarios

TheObject == <<"{", MemberDQ, "}">>

Commentary(t) == \A i \in 1..Len(t) : t[i] \in {"w", " ", "\n"}

\* The completion is the object in a json fence.
JsonFenced(t) ==
    /\ Len(t) = 8
    /\ t[1] = Fence /\ t[2] \in {"json", "JSON"} /\ t[3] = "\n"
    /\ SubSeq(t, 4, 6) = TheObject
    /\ t[7] = "\n" /\ t[8] = Fence

\* The completion is the object with commentary before or after it.
WithCommentary(t) ==
    \E i \in 1..Len(t) :
        /\ i + 2 <= Len(t)
        /\ SubSeq(t, i, i + 2) = TheObject
        /\ Commentary(SubSeq(t, 1, i - 1))
        /\ Commentary(SubSeq(t, i + 3, Len(t)))

\* C21: safe_json decodes a json-fenced object to exactly that object, and
\* an object preceded or followed by commentary to that object.
C21_ObjectsDecode ==
    (jpc = "returned" /\ (JsonFenced(jtext) \/ WithCommentary(jtext))) =>
        jresult = JsonDict(1)

----
\* --------------------------------- ein_enrichment.gpt_call, one call

MAX_BACKOFF == 1
ENRICH_MAX_RETRIES == 4

\* backoff_sleep(i): min(2 * (2 ** (i - 1)), MAX_BACKOFF)
enrich_backoff_delay(i) == Min(BACKOFF_BASE * (2 ^ (i - 1)), MAX_BACKOFF)

EnrichRateLimitMarkers == {"rate limit", "429"}
EnrichTransientMarkers == {"timeout", "timed out", "502", "503", "504"}

\* One iteration of the for loop of ein_enrichment.gpt_call: a completion is
\* decoded and returned as it is; a rate-limit or transient error sleeps and
\* goes on; any other error leaves the loop.
enrich_gpt_iteration(i, outcome) ==
    IF outcome.kind = "text"
    THEN [next |-> "return",
          value |-> safe_json(IF outcome.text = <<>> THEN <<"{", "}">> ELSE outcome.text),
          sleeps |-> <<>>]
    ELSE IF outcome.msg \cap (EnrichRateLimitMarkers \cup EnrichTransientMarkers) # {}
    THEN [next |-> "continue", value |-> EmptyMap,
          sleeps |-> <<[kind |-> "backoff", delay |-> enrich_backoff_delay(i)]>>]
    ELSE [next |-> "break", value |-> EmptyMap, sleeps |-> <<>>]

EnrichGptErrors == {{"rate limit"}, {"429"}, {"503"}, {"timed out"}, {"invalid api key"}}

EnrichGptOutcomes ==
    {Completion(t) : t \in GptTexts} \cup {Raised(m) : m \in EnrichGptErrors}

EnrichGptAttempt ==
    \E outcome \in EnrichGptOutcomes :
        /\ gpc = "loop"
        /\ gattempt <= ENRICH_MAX_RETRIES
        /\ LET it == enrich_gpt_iteration(gattempt, outcome)
           IN  /\ ghist' = Append(ghist, outcome)
               /\ gsleeps' = gsleeps \o it.sleeps
               /\ IF it.next = "return"
                  THEN gpc' = "done" /\ gret' = it.value /\ UNCHANGED gattempt
                  ELSE IF it.next = "break" \/ gattempt = ENRICH_MAX_RETRIES
                  THEN gpc' = "done" /\ gret' = EmptyMap /\ UNCHANGED gattempt
                  ELSE gpc' = "loop" /\ gattempt' = gattempt + 1 /\ UNCHANGED gret
        /\ UNCHANGED <<lateVars, dbVars, upVars, raceVars, jsonVars, searchVars, einVars, parseVars,
                       enrichVars>>

NextEnrichGpt == EnrichGptAttempt

SpecEnrichGpt == InitGpt /\ [][NextEnrichGpt]_vars

\* The delays are 2, 4, 8, ... limited by the cap: the first is 2, each
\* later one the double of the one before or the cap, none above the cap.
DoublingDelays(delays, cap) ==
    /\ \A i \in 1..Len(delays) : delays[i] = Min(2 * (2 ^ (i - 1)), cap)
    /\ delays # <<>> => delays[1] = 2
    /\ \A i \in 2..Len(delays) : delays[i] = Min(2 * delays[i - 1], cap)
    /\ \A i \in 1..Len(delays) : delays[i] <= cap

BackoffDelays == [i \in 1..Len(Backoffs) |-> Backoffs[i].delay]

\* The same for the wrapper of the parser.
ParserDelaysDouble == DoublingDelays(BackoffDelays, PARSER_BACKOFF_CAP)

\* C22: the backoff delay before retry i of the wrapper of the enrichment
\* module is 2, 4, 8, ... limited by MAX_BACKOFF: the first delay is 2
\* seconds and each later one doubles until the cap.
C22_BackoffDoubles == DoublingDelays(BackoffDelays, MAX_BACKOFF)

----
\* ------------------------------------------- build_deep_search_queries

\* The double-quote character.
DQ == "dq"

QUERY_CAP == 6
PATH_TOKENS_USED == 4

Take(seq, n) == SubSeq(seq, 1, Min(Len(seq), n))

RECURSIVE JoinWith(_, _)
JoinWith(parts, sep) ==
    IF parts = <<>> THEN <<>>
    ELSE IF Len(parts) = 1 THEN parts[1]
    ELSE parts[1] \o sep \o JoinWith(Tail(parts), sep)

\* urlparse(url): url.valid = FALSE stands for a url urlparse raises
\* ValueError on; host is netloc, segments is path.split("/").
\* A segment of at most two characters.
ShortSegments == {<<>>, <<"ab">>}

path_tokens(url) == SelectSeq(url.segments, LAMBDA t : t \notin ShortSegments)

\* parsed.get(k) if parsed and parsed.get(k) else None
FieldOrNone(parsed, k) == IF Truthy(Get(parsed, k)) THEN parsed[k] ELSE None

\* parsed.get("event_date").split("-")[0], "" when that raises
NonStrDate == <<"<[2025]>">>

year_of(parsed) ==
    LET d == Get(parsed, "event_date")
        dashes == {i \in 1..Len(d) : d[i] = "-"}
    IN  IF ~Truthy(d) \/ d = NonStrDate THEN <<>>
        ELSE IF dashes = {} THEN d
        ELSE SubSeq(d, 1, (CHOOSE i \in dashes : \A k \in dashes : i <= k) - 1)

\* qrs, the queries in construction order.
constructed_queries(url, parsed) ==
    LET en == FieldOrNone(parsed, "event_name")
        on == FieldOrNone(parsed, "organizer_name")
        subject == IF Truthy(on) THEN PyStr(on)
                   ELSE IF Truthy(en) THEN PyStr(en) ELSE <<"event">>
        year == year_of(parsed)
        city == IF Truthy(Get(parsed, "venue_city")) THEN PyStr(parsed["venue_city"]) ELSE <<>>
    IN  (IF Truthy(en)
         THEN <<PyStr(en) \o <<" ", DQ, "event", DQ>>,
                PyStr(en) \o <<" ", "site:.org", " ", "OR", " ", "site:.com">>>>
         ELSE <<>>)
        \o (IF Truthy(on)
            THEN <<PyStr(on) \o <<" ", DQ, "nonprofit", DQ, " ", "OR", " ", DQ, "charity", DQ>>,
                   PyStr(on) \o <<" ", "site:charitynavigator.org", " ", "OR", " ",
                                  "site:candid.org", " ", "OR", " ", "site:causeiq.com">>>>
            ELSE <<>>)
        \o (IF url.host # <<>>
            THEN <<<<"site:">> \o url.host \o <<" ", DQ>> \o subject \o <<DQ>>>>
            ELSE <<>>)
        \o (IF path_tokens(url) # <<>>
            THEN <<JoinWith(Take(path_tokens(url), PATH_TOKENS_USED), <<" ">>)>>
            ELSE <<>>)
        \o (IF city # <<>> \/ year # <<>>
            THEN <<<<"event">> \o (IF city # <<>> THEN <<" ">> \o city ELSE <<>>)
                               \o (IF year # <<>> THEN <<" ">> \o year ELSE <<>>)>>
            ELSE <<>>)

\* The loop over qrs: each query stripped, kept when it is not empty and
\* was not seen before.
RECURSIVE dedupe(_, _)
dedupe(qrs, final) ==
    IF qrs = <<>> THEN final
    ELSE LET qn == Strip(Head(qrs))
         IN  IF qn # <<>> /\ \A i \in 1..Len(final) : final[i] # qn
             THEN dedupe(Tail(qrs), Append(final, qn))
             ELSE dedupe(Tail(qrs), final)

\* final[:6]
select_queries(qrs) == Take(dedupe(qrs, <<>>), QUERY_CAP)

\* build_deep_search_queries(url, parsed): the second urlparse(url) is
\* outside the try of the first and raises on a url urlparse rejects.
build_deep_search_queries(url, parsed) ==
    IF ~url.valid THEN [raised |-> TRUE, queries |-> <<>>]
    ELSE [raised |-> FALSE, queries |-> select_queries(constructed_queries(url, parsed))]

Url(valid, host, segments) == [valid |-> valid, host |-> host, segments |-> segments]

QueryUrls ==
    {Url(FALSE, <<>>, <<>>),
     Url(TRUE, <<"h">>, <<>>),
     Url(TRUE, <<>>, <<<<>>, <<"event">>, <<"Paris">>, <<"2025">>>>),
     Url(TRUE, <<"h">>, <<<<>>, <<"Gala">>, <<DQ, "event", DQ>>>>),
     Url(TRUE, <<"h">>, <<<<>>, <<"ab">>, <<"seg1">>, <<"seg2">>, <<"seg3">>, <<"seg4">>, <<"seg5">>>>)}

QueryRecords ==
    {NoFields} \cup
    [event_name : {None, <<>>, <<"Gala">>, <<" ", "Gala">>},
     organizer_name : {None, <<"Nova">>},
     event_date : {None, <<"2025", "-", "05">>, <<"x">>, NonStrDate},
     venue_city : {<<>>, <<"Paris">>}]

InitQueries ==
    /\ fpc = "call"
    /\ fin \in [url : QueryUrls, parsed : QueryRecords]
    /\ fout = <<>>
    /\ organizers = {}
    /\ UpsertIdle
    /\ RaceIdle
    /\ JsonIdle
    /\ GptIdle
    /\ SearchIdle
    /\ EinIdle
    /\ ParseIdle
    /\ EnrichIdle
    /\ ScraperIdle
    /\ RunnerIdle

BuildQueries ==
    /\ fpc = "call"
    /\ fout' = build_deep_search_queries(fin.url, fin.parsed)
    /\ fpc' = "returned"
    /\ UNCHANGED <<dbVars, upVars, raceVars, jsonVars, gptVars, searchVars, einVars, parseVars,
                   enrichVars, scraperVars, runnerVars, fin>>

NextQueries == BuildQueries

SpecQueries == InitQueries /\ [][NextQueries]_vars

\* The distinct non-empty stripped queries of qrs, each at its first place.
FirstOccurrences(qrs) ==
    LET stripped == [i \in 1..Len(qrs) |-> Strip(qrs[i])]
        keep == {i \in 1..Len(qrs) :
                    stripped[i] # <<>> /\ \A j \in 1..(i - 1) : stripped[j] # stripped[i]}
        F[i \in 0..Len(qrs)] ==
            IF i = 0 THEN <<>>
            ELSE IF i \in keep THEN Append(F[i - 1], stripped[i]) ELSE F[i - 1]
    IN  F[Len(qrs)]

\* C23: build_deep_search_queries returns for every url and partial record
\* a list with no two equal strings, no empty string and at most 6 entries:
\* the first 6 distinct queries in construction order.
C23_QueriesDistinctCapped ==
    fpc = "returned" =>
        /\ ~fout.raised
        /\ Len(fout.queries) <= QUERY_CAP
        /\ \A i, j \in 1..Len(fout.queries) : i # j => fout.queries[i] # fout.queries[j]
        /\ \A i \in 1..Len(fout.queries) : fout.queries[i] # <<>>
        /\ fout.queries = Take(FirstOccurrences(constructed_queries(fin.url, fin.parsed)),
                               QUERY_CAP)

\* The same for the urls urlparse accepts.
QueriesDistinctCappedValidUrl ==
    (fpc = "returned" /\ fin.url.valid) =>
        /\ ~fout.raised
        /\ Len(fout.queries) <= QUERY_CAP
        /\ \A i, j \in 1..Len(fout.queries) : i # j => fout.queries[i] # fout.queries[j]
        /\ \A i \in 1..Len(fout.queries) : fout.queries[i] # <<>>
        /\ fout.queries = Take(FirstOccurrences(constructed_queries(fin.url, fin.parsed)),
                               QUERY_CAP)

----
\* ------------------------------------- deep_synthesize_fields, one call
\* One escalation, step by step: the query loop, the fetch loop and the
\* prompt.  A link is a number, 0 a result without link; a page text is
\* its number of characters.

DEEP_SEARCH_MAX_PAGES == 6
DEEP_SEARCH_SNIPPET_CHARS == 3500
MAX_CANDIDATES == DEEP_SEARCH_MAX_PAGES * 2
PROMPT_SNIPPET_CHARS == DEEP_SEARCH_SNIPPET_CHARS * 6
SEPARATOR_CHARS == 2

InList(x, seq) == \E i \in 1..Len(seq) : seq[i] = x

\* The inner loop without the membership test.
RECURSIVE add_candidates_keep_all(_, _)
add_candidates_keep_all(candidate_urls, results) ==
    IF results = <<>> THEN candidate_urls
    ELSE IF Head(results) # 0
         THEN add_candidates_keep_all(Append(candidate_urls, Head(results)), Tail(results))
         ELSE add_candidates_keep_all(candidate_urls, Tail(results))

\* for r in results: if link and link not in candidate_urls: append
RECURSIVE add_candidates(_, _)
add_candidates(candidate_urls, results) ==
    IF results = <<>> THEN candidate_urls
    ELSE IF Head(results) # 0 /\ ~InList(Head(results), candidate_urls)
         THEN add_candidates(Append(candidate_urls, Head(results)), Tail(results))
         ELSE add_candidates(candidate_urls, Tail(results))

\* text[:chars_per_page]
page_snippet(chars) == Min(chars, DEEP_SEARCH_SNIPPET_CHARS)

\* len("\n\n".join(aggregated))
RECURSIVE joined_chars(_)
joined_chars(aggregated) ==
    IF aggregated = <<>> THEN 0
    ELSE IF Len(aggregated) = 1 THEN aggregated[1]
    ELSE aggregated[1] + SEPARATOR_CHARS + joined_chars(Tail(aggregated))

\* snippets[:DEEP_SEARCH_SNIPPET_CHARS * 6]
prompt_snippets(aggregated) == Min(joined_chars(aggregated), PROMPT_SNIPPET_CHARS)

\* What serpapi_search gives for one query; <<-1>> when it raises.
SearchRaised == <<-1>>

DeepResults ==
    {SearchRaised, <<>>, <<1, 1, 0, 2>>,
     <<1, 2, 3, 4, 5, 6>>, <<4, 5, 6, 7, 8, 9, 10, 11, 12, 13>>}

\* What one candidate gives: a text of so many characters, or no text
\* (-1 no html, 0 html without text, -2 an exception).
PageChars == {1, DEEP_SEARCH_SNIPPET_CHARS, DEEP_SEARCH_SNIPPET_CHARS + 1}
DeepPages == {-2, -1, 0} \cup PageChars

InitDeep ==
    /\ fpc = "search"
    /\ fin \in [queries : 0..QUERY_CAP]
    /\ fout = [asked |-> 0, candidate_urls |-> <<>>, fetched |-> <<>>,
               aggregated |-> <<>>, prompt_chars |-> 0]
    /\ organizers = {}
    /\ UpsertIdle
    /\ RaceIdle
    /\ JsonIdle
    /\ GptIdle
    /\ SearchIdle
    /\ EinIdle
    /\ ParseIdle
    /\ EnrichIdle
    /\ ScraperIdle
    /\ RunnerIdle

deepFrame ==
    <<dbVars, upVars, raceVars, jsonVars, gptVars, searchVars, einVars, parseVars,
      enrichVars, scraperVars, runnerVars, fin>>

\* One pass of "for q in queries": the search, the inner loop, the break.
DeepQuery ==
    /\ fpc = "search"
    /\ fout.asked < fin.queries
    /\ Len(fout.candidate_urls) < MAX_CANDIDATES
    /\ \E results \in DeepResults :
          fout' = [fout EXCEPT
                      !.asked = @ + 1,
                      !.candidate_urls =
                          IF results = SearchRaised THEN @ ELSE add_candidates(@, results)]
    /\ fpc' = "search"
    /\ UNCHANGED deepFrame

\* The end of the query loop: the slice, and {} without candidates.
DeepCandidates ==
    /\ fpc = "search"
    /\ fout.asked = fin.queries \/ Len(fout.candidate_urls) >= MAX_CANDIDATES
    /\ fout' = [fout EXCEPT !.candidate_urls = Take(@, MAX_CANDIDATES)]
    /\ fpc' = IF fout.candidate_urls = <<>> THEN "returned" ELSE "fetch"
    /\ UNCHANGED deepFrame

\* One pass of "for u in urls" of fetch_and_aggregate_snippets.
DeepFetch ==
    /\ fpc = "fetch"
    /\ Len(fout.fetched) < Len(fout.candidate_urls)
    /\ Len(fout.aggregated) < DEEP_SEARCH_MAX_PAGES
    /\ \E page \in DeepPages :
          fout' = [fout EXCEPT
                      !.fetched = Append(@, fout.candidate_urls[Len(fout.fetched) + 1]),
                      !.aggregated =
                          IF page \in PageChars THEN Append(@, page_snippet(page)) ELSE @]
    /\ fpc' = "fetch"
    /\ UNCHANGED deepFrame

\* The end of the fetch loop, the join and the prompt.
DeepPrompt ==
    /\ fpc = "fetch"
    /\ \/ Len(fout.fetched) = Len(fout.candidate_urls)
       \/ Len(fout.aggregated) >= DEEP_SEARCH_MAX_PAGES
    /\ fout' = [fout EXCEPT !.prompt_chars = prompt_snippets(fout.aggregated)]
    /\ fpc' = "returned"
    /\ UNCHANGED deepFrame

NextDeep == DeepQuery \/ DeepCandidates \/ DeepFetch \/ DeepPrompt

SpecDeep == InitDeep /\ [][NextDeep]_vars

Distinct(seq) == \A i, j \in 1..Len(seq) : i # j => seq[i] # seq[j]

----
\* ------------------------------------------- one enrichment update
\* process_single_organizer or process_single_event called once for a row
\* of the stored tables.

UpdateSeeds ==
    Seeds \cup {WithField(SeedData(<<"e">>, FALSE, TRUE), "description", None),
                WithField(SeedData(<<"f">>, TRUE, FALSE), "organizer_ein", None)}

UpdateTables == {Stored(recs) : recs \in [1..2 -> UpdateSeeds]}

UpdateSocialAnswers ==
    SocialAnswers \cup
        {PyDict([k \in {"facebook", "instagram"} |-> IF k = "facebook" THEN Zero ELSE None])}

UpdateEventAnswers ==
    EventAnswers \cup
        {PyDict([k \in {"description", "past_sponsors"} |->
                    IF k = "description" THEN <<"y">> ELSE EmptyList]),
         PyDict([k \in {"past_sponsors"} |-> EmptyList]),
         PyDict([k \in {"description", "dress_code"} |-> IF k = "description" THEN None ELSE <<>>])}

UpdateOrganizerInputs ==
    [locator : Locators, enrich : UpdateSocialAnswers, ein_store : {"ok", "error"},
     log_store : {"ok"}, update_store : {"ok", "no_conn", "error"}]

UpdateEventInputs ==
    [enrich : UpdateEventAnswers, log_store : {"ok"}, update_store : {"ok", "no_conn", "error"}]

InitUpdate ==
    /\ \E t \in UpdateTables : organizers = t.orgs /\ events = t.evs
    /\ orgCalls = <<>>
    /\ evCalls = <<>>
    /\ failedCalls = 0
    /\ fpc = "call"
    /\ fin = <<>>
    /\ fout = <<>>
    /\ RaceIdle
    /\ JsonIdle
    /\ GptIdle
    /\ SearchIdle
    /\ EinIdle
    /\ ParseIdle
    /\ EnrichIdle
    /\ ScraperIdle
    /\ RunnerIdle

updateFrame ==
    <<upVars, raceVars, jsonVars, gptVars, searchVars, einVars, parseVars,
      enrichVars, scraperVars, runnerVars, fin>>

\* What the enrichment returned for the columns of an organizer: the EIN
\* of the locator and the values of the social prompt.
OrganizerReturned(in) ==
    [k \in {"ein", "facebook", "instagram", "contact_title"} |->
        IF k = "ein"
        THEN (IF in.locator.raised THEN None ELSE in.locator.ein)
        ELSE Get(in.enrich.fields, k)]

EventReturned(in) ==
    [k \in {ENRICH_EVENT_FIELDS[i] : i \in 1..Len(ENRICH_EVENT_FIELDS)} |->
        Get(in.enrich.fields, k)]

UpdateOrganizer ==
    /\ fpc = "call"
    /\ \E org \in {r \in organizers : OrganizerSelectable(r)}, in \in UpdateOrganizerInputs :
          LET done == process_single_organizer(org, in, organizers, <<>>)
          IN  /\ organizers' = done.orgs
              /\ fout' = [kind |-> "organizer", id |-> org.id,
                          returned |-> OrganizerReturned(in),
                          wrote |-> in.update_store = "ok" /\
                                    ~InRaises(in.enrich) /\
                                    DOMAIN organizer_to_set(
                                        to_update(done.did.located, in.enrich)) # {},
                          orgs |-> organizers, evs |-> events]
    /\ fpc' = "returned"
    /\ UNCHANGED <<events, updateFrame>>

UpdateEvent ==
    /\ fpc = "call"
    /\ \E ev \in {r \in events : EventSelectable(r)}, in \in UpdateEventInputs :
          LET done == process_single_event(ev, in, events, <<>>)
          IN  /\ events' = done.evs
              /\ fout' = [kind |-> "event", id |-> ev.id,
                          returned |-> EventReturned(in),
                          wrote |-> in.update_store = "ok" /\
                                    EnrichTruthy(in.enrich) /\
                                    in.enrich.type = "dict" /\
                                    DOMAIN event_to_set(in.enrich.fields) # {},
                          orgs |-> organizers, evs |-> events]
    /\ fpc' = "returned"
    /\ UNCHANGED <<organizers, updateFrame>>

NextUpdate == UpdateOrganizer \/ UpdateEvent

SpecUpdate == InitUpdate /\ [][NextUpdate]_vars

\* An empty value: null, the empty string, the empty list.
EmptyValue(v) == v \in {None, <<>>, EmptyList}

\* Rows with the same ids, differing at most in the columns cols of row id.
SameBut(before, after, id, cols) ==
    /\ {r.id : r \in before} = {r.id : r \in after}
    /\ \A r \in before, q \in after :
          r.id = q.id =>
              \A c \in DOMAIN r : r[c] # q[c] => r.id = id /\ c \in cols

ReturnedNonEmpty == {c \in DOMAIN fout.returned : ~EmptyValue(fout.returned[c])}

\* C25: an enrichment update changes, in the one row with the given id,
\* only the columns for which the enrichment returned a non-empty value;
\* every other column, every other row and the other table are unchanged;
\* when nothing non-empty was returned no write happens.
C25_OnlyReturnedFieldsPersisted ==
    fpc = "returned" =>
        /\ fout.kind = "organizer" =>
              events = fout.evs /\ SameBut(fout.orgs, organizers, fout.id, ReturnedNonEmpty)
        /\ fout.kind = "event" =>
              organizers = fout.orgs /\ SameBut(fout.evs, events, fout.id, ReturnedNonEmpty)
        /\ ReturnedNonEmpty = {} => ~fout.wrote

\* The same for the organizers alone.
OnlyReturnedOrganizerFieldsPersisted ==
    (fpc = "returned" /\ fout.kind = "organizer") =>
        /\ events = fout.evs
        /\ SameBut(fout.orgs, organizers, fout.id, ReturnedNonEmpty)
        /\ ReturnedNonEmpty = {} => ~fout.wrote

----
\* ------------------------------------------------------- identity keys

\* The uid of every stored row is generate_uid of the key columns the row
\* holds.
IdentityKept(orgs, evs) ==
    /\ \A o \in orgs : o.uid = generate_uid(<<o.name, o.website>>)
    /\ \A e \in evs : e.uid = generate_uid(<<e.name, e.date, e.venue_name>>)

\* The uid and the columns it is derived from, by row id.
OrganizerKeys(orgs) == {<<o.id, o.uid, o.name, o.website>> : o \in orgs}
EventKeys(evs) == {<<e.id, e.uid, e.name, e.date, e.venue_name>> : e \in evs}

\* C26: only the upserts write identity keys: after every step of the
\* pipeline the uid of each stored organizer is generate_uid of its stored
\* (name, website) and the uid of each stored event is generate_uid of its
\* stored (name, date, venue_name), and a step of the enrichment changes no
\* uid and no column a uid is derived from.
C26_IdentityKeysOwnedByUpserts ==
    [][/\ IdentityKept(organizers', events')
       /\ enrichVars' # enrichVars =>
             /\ OrganizerKeys(organizers') = OrganizerKeys(organizers)
             /\ EventKeys(events') = EventKeys(events)]_vars

\* The enrichment has written to a stored organizer and to a stored event.
C26_Witness ==
    /\ \E o \in organizers : o.ein = <<"1", "2">> /\ o.facebook = <<"f">>
    /\ \E e \in events : e.description = <<"y">>
    /\ IdentityKept(organizers, events)

----
\* ------------------------------------------------ search_scraper.main
\* A url is a number.  The limit is 1000 in search_scraper.py; the run is
\* checked with a small one.

SEARCH_SAVE_LIMIT == 2
MaxItems == 4

ScraperUrls == 1..(SEARCH_SAVE_LIMIT + 1)

StoredUrls(rows) == {r.url : r \in rows}

\* An INSERT without the unique key on url.
save_raw_link_nounique(rows, url, store) ==
    IF store # "ok" THEN [rows |-> rows, saved |-> FALSE]
    ELSE [rows |-> rows \cup {[id |-> Cardinality(rows) + 1, url |-> url]}, saved |-> TRUE]

\* save_raw_link: INSERT ... ON DUPLICATE KEY UPDATE url = url and
\* cursor.rowcount != 0: one row affected for a new url, none for a url
\* already stored; False without a connection and on an exception.
save_raw_link(rows, url, store) ==
    IF store # "ok" THEN [rows |-> rows, saved |-> FALSE]
    ELSE IF url \in StoredUrls(rows) THEN [rows |-> rows, saved |-> FALSE]
    ELSE [rows |-> rows \cup {[id |-> Cardinality(rows) + 1, url |-> url]}, saved |-> TRUE]

InitScraper ==
    /\ link_urls \in {{}, {[id |-> 1, url |-> 1]}}
    /\ total_saved = 0
    /\ slast = [pc |-> "run", before |-> StoredUrls(link_urls), reports |-> <<>>]
    /\ organizers = {}
    /\ UpsertIdle
    /\ RaceIdle
    /\ JsonIdle
    /\ GptIdle
    /\ SearchIdle
    /\ EinIdle
    /\ ParseIdle
    /\ EnrichIdle
    /\ UnitIdle
    /\ RunnerIdle

scraperFrame ==
    <<dbVars, upVars, raceVars, jsonVars, gptVars, searchVars, einVars, parseVars,
      enrichVars, unitVars, runnerVars>>

\* One pass of "for item in results" with a link: the limit test, the save,
\* the count.
ScraperItem ==
    /\ slast.pc = "run"
    /\ Len(slast.reports) < MaxItems
    /\ total_saved < SEARCH_SAVE_LIMIT
    /\ \E url \in ScraperUrls, store \in StoreOutcomes :
          LET done == save_raw_link(link_urls, url, store)
          IN  /\ link_urls' = done.rows
              /\ total_saved' = IF done.saved THEN total_saved + 1 ELSE total_saved
              /\ slast' = [slast EXCEPT !.reports =
                              Append(@, [url |-> url,
                                         existed |-> url \in StoredUrls(link_urls),
                                         saved |-> done.saved,
                                         changed |-> done.rows # link_urls])]
    /\ UNCHANGED scraperFrame

\* One pass with an item without link: continue.
ScraperSkip ==
    /\ slast.pc = "run"
    /\ Len(slast.reports) < MaxItems
    /\ total_saved < SEARCH_SAVE_LIMIT
    /\ slast' = [slast EXCEPT !.reports =
                    Append(@, [url |-> 0, existed |-> FALSE, saved |-> FALSE,
                               changed |-> FALSE])]
    /\ UNCHANGED <<link_urls, total_saved, scraperFrame>>

\* The loops end: the limit is reached or the queries are used up.
ScraperDone ==
    /\ slast.pc = "run"
    /\ slast' = [slast EXCEPT !.pc = "done"]
    /\ UNCHANGED <<link_urls, total_saved, scraperFrame>>

NextScraper == ScraperItem \/ ScraperSkip \/ ScraperDone

SpecScraper == InitScraper /\ [][NextScraper]_vars

\* C27: no two raw links share a url; saving a url already stored changes
\* nothing and is reported as not saved; in one run the count of links
\* reported saved never exceeds SEARCH_SAVE_LIMIT and is the number of urls
\* newly stored in the run.
C27_UrlIsKey ==
    /\ \A r, q \in link_urls : r.url = q.url => r = q
    /\ \A i \in 1..Len(slast.reports) :
          slast.reports[i].existed => ~slast.reports[i].saved /\ ~slast.reports[i].changed
    /\ total_saved <= SEARCH_SAVE_LIMIT
    /\ total_saved = Cardinality({i \in 1..Len(slast.reports) : slast.reports[i].saved})
    /\ total_saved = Cardinality(StoredUrls(link_urls) \ slast.before)

\* A run that ended at the limit after a url already stored was offered
\* again and after a save that failed.
C27_Witness ==
    /\ slast.pc = "done"
    /\ total_saved = SEARCH_SAVE_LIMIT
    /\ \E i \in 1..Len(slast.reports) : slast.reports[i].existed
    /\ \E i \in 1..Len(slast.reports) :
          ~slast.reports[i].existed /\ ~slast.reports[i].saved /\ slast.reports[i].url # 0

----
\* ----------------------------------------------------------- main.py
\* The runner: check_env, ensure_database, then run_script_stream for each
\* entry of SCRIPTS.  mtrace holds one entry per stage the runner came to,
\* mrunning the stages whose process runs.

SCRIPTS == <<"Search", "Parse", "Enrich", "Export">>

MaxLines == 2

\* proc.returncode: 0, an error code, the negative number of a signal.
ExitCodes == {0, 1, -9}

StageEntry(stage, status, lines, code) ==
    [stage |-> stage, status |-> status, lines |-> lines, code |-> code]

\* A runner that goes on whatever the exit code.
after_exit_ignore_code(stage, code) ==
    IF stage = Len(SCRIPTS) THEN "finished" ELSE "next"

\* if proc.returncode != 0: sys.exit(proc.returncode); else the for loop
\* goes on, and main ends after the last entry.
after_exit(stage, code) ==
    IF code # 0 THEN "exited"
    ELSE IF stage = Len(SCRIPTS) THEN "finished" ELSE "next"

InitRunner ==
    /\ mpc = "check_env"
    /\ mrunning = {}
    /\ mtrace = <<>>
    /\ organizers = {}
    /\ UpsertIdle
    /\ RaceIdle
    /\ JsonIdle
    /\ GptIdle
    /\ SearchIdle
    /\ EinIdle
    /\ ParseIdle
    /\ EnrichIdle
    /\ UnitIdle
    /\ ScraperIdle

runnerFrame ==
    <<dbVars, upVars, raceVars, jsonVars, gptVars, searchVars, einVars, parseVars,
      enrichVars, unitVars, scraperVars>>

\* check_env: sys.exit(1) without OPENAI_API_KEY.
CheckEnv ==
    /\ mpc = "check_env"
    /\ \E key_set \in BOOLEAN : mpc' = IF key_set THEN "ensure_database" ELSE "exited"
    /\ UNCHANGED <<mrunning, mtrace, runnerFrame>>

\* if not ensure_database(): sys.exit(1); create_tables()
EnsureDatabase ==
    /\ mpc = "ensure_database"
    /\ \E ensured \in BOOLEAN : mpc' = IF ensured THEN "next" ELSE "exited"
    /\ UNCHANGED <<mrunning, mtrace, runnerFrame>>

\* run_script_stream up to Popen: a script that is not there ends the run;
\* a Popen that raises ends it with the exception.
StartStage ==
    /\ mpc = "next"
    /\ Len(mtrace) < Len(SCRIPTS)
    /\ LET stage == Len(mtrace) + 1
       IN  \E found \in {"missing", "spawn_failed", "started"} :
              IF found = "started"
              THEN /\ mrunning' = mrunning \cup {stage}
                   /\ mtrace' = Append(mtrace, StageEntry(stage, "running", 0, 0))
                   /\ mpc' = "streaming"
              ELSE /\ mrunning' = mrunning
                   /\ mtrace' = Append(mtrace, StageEntry(stage, found, 0, 0))
                   /\ mpc' = "exited"
    /\ UNCHANGED runnerFrame

\* for line in proc.stdout: print(line)
StreamLine ==
    /\ mpc = "streaming"
    /\ mtrace[Len(mtrace)].lines < MaxLines
    /\ mtrace' = [mtrace EXCEPT ![Len(mtrace)].lines = @ + 1]
    /\ UNCHANGED <<mpc, mrunning, runnerFrame>>

\* except KeyboardInterrupt: proc.kill(); sys.exit(1)
Interrupt ==
    /\ mpc = "streaming"
    /\ mrunning' = mrunning \ {Len(mtrace)}
    /\ mtrace' = [mtrace EXCEPT ![Len(mtrace)].status = "killed"]
    /\ mpc' = "exited"
    /\ UNCHANGED runnerFrame

\* The output of the process ends.
EndOfOutput ==
    /\ mpc = "streaming"
    /\ mpc' = "waiting"
    /\ UNCHANGED <<mrunning, mtrace, runnerFrame>>

\* proc.wait() returns; the test of the return code.
StageExit ==
    /\ mpc = "waiting"
    /\ \E code \in ExitCodes :
          /\ mtrace' = [mtrace EXCEPT ![Len(mtrace)].status = "exited",
                                      ![Len(mtrace)].code = code]
          /\ mpc' = after_exit(Len(mtrace), code)
    /\ mrunning' = mrunning \ {Len(mtrace)}
    /\ UNCHANGED runnerFrame

NextRunner ==
    \/ CheckEnv
    \/ EnsureDatabase
    \/ StartStage
    \/ StreamLine
    \/ Interrupt
    \/ EndOfOutput
    \/ StageExit

SpecRunner == InitRunner /\ [][NextRunner]_vars

Failed(entry) ==
    \/ entry.status \in {"missing", "spawn_failed", "killed"}
    \/ entry.status = "exited" /\ entry.code # 0

\* C28: the stages run one at a time in the order Search, Parse, Enrich,
\* Export: the runner comes to stage k only after stages 1..k-1 each exited
\* with code 0, at most one stage runs at any time, and when a stage failed
\* or its script was missing the run has ended with no later stage started.
C28_StagesInOrder ==
    /\ Len(mtrace) <= Len(SCRIPTS)
    /\ \A k \in 1..Len(mtrace) : mtrace[k].stage = k
    /\ \A k \in 1..(Len(mtrace) - 1) : mtrace[k].status = "exited" /\ mtrace[k].code = 0
    /\ Cardinality(mrunning) <= 1
    /\ \A k \in mrunning : k = Len(mtrace) /\ mtrace[k].status = "running"
    /\ \A k \in 1..Len(mtrace) :
          Failed(mtrace[k]) => k = Len(mtrace) /\ mpc = "exited" /\ mrunning = {}

\* The run came to Export after three stages that printed lines and exited
\* with 0, and Export failed.
C28_Witness ==
    /\ Len(mtrace) = 4
    /\ \A k \in 1..3 : mtrace[k].lines > 0
    /\ mtrace[4].status = "exited" /\ mtrace[4].code # 0
    /\ mpc = "exited"

\* The run was aborted at the second stage.
C28_WitnessAbort ==
    /\ Len(mtrace) = 2
    /\ Failed(mtrace[2])
    /\ mpc = "exited"

----
\* ------------------------------------------------- fetcher.fetch_page
\* One call, step by step.  A headless attempt gives html, gives nothing,
\* or raises; the plain-HTTP fetch gives html or None and never raises.

MaxTries == 3

\* One pass of the for loop after asyncio.run: return html, break after an
\* exception in the last attempt, else sleep and go on.
headless_step_no_return(attempt, tries, outcome) ==
    IF outcome = "raised" /\ attempt = tries THEN "break" ELSE "sleep"

headless_step(attempt, tries, outcome) ==
    IF outcome = "html" THEN "return"
    ELSE IF outcome = "raised" /\ attempt = tries THEN "break"
    ELSE "sleep"

\* time.sleep(1.5 * attempt), in tenths of a second
fetch_sleep(attempt) == 15 * attempt

InitFetch ==
    /\ fpc = "loop"
    /\ fin \in [tries : 0..MaxTries, requests_fallback : BOOLEAN]
    /\ fout = [attempts |-> <<>>, sleeps |-> <<>>, fallbacks |-> <<>>, ret |-> None]
    /\ organizers = {}
    /\ UpsertIdle
    /\ RaceIdle
    /\ JsonIdle
    /\ GptIdle
    /\ SearchIdle
    /\ EinIdle
    /\ ParseIdle
    /\ EnrichIdle
    /\ ScraperIdle
    /\ RunnerIdle

HeadlessAttempt ==
    /\ fpc = "loop"
    /\ Len(fout.attempts) < fin.tries
    /\ \E outcome \in {"html", "empty", "raised"} :
          LET attempt == Len(fout.attempts) + 1
              step == headless_step(attempt, fin.tries, outcome)
          IN  /\ fout' = [fout EXCEPT
                             !.attempts = Append(@, outcome),
                             !.sleeps = IF step = "sleep"
                                        THEN Append(@, fetch_sleep(attempt)) ELSE @,
                             !.ret = IF step = "return" THEN <<"headless html">> ELSE @]
              /\ fpc' = CASE step = "return" -> "returned"
                          [] step = "break" -> "after"
                          [] OTHER -> "loop"
    /\ UNCHANGED deepFrame

\* range(1, tries + 1) is used up.
LoopEnd ==
    /\ fpc = "loop"
    /\ Len(fout.attempts) >= fin.tries
    /\ fpc' = "after"
    /\ UNCHANGED <<fout, deepFrame>>

\* if requests_fallback: return _fetch_with_requests(url); return None
AfterLoop ==
    /\ fpc = "after"
    /\ IF fin.requests_fallback
       THEN \E got \in {<<"http html">>, None} :
               fout' = [fout EXCEPT !.fallbacks = Append(@, got), !.ret = got]
       ELSE fout' = [fout EXCEPT !.ret = None]
    /\ fpc' = "returned"
    /\ UNCHANGED deepFrame

NextFetch == HeadlessAttempt \/ LoopEnd \/ AfterLoop

SpecFetch == InitFetch /\ [][NextFetch]_vars

NoHtml(attempts) == \A i \in 1..Len(attempts) : attempts[i] # "html"

\* C29: fetch_page makes at most tries headless attempts and returns the
\* html of the first that gave any; the plain-HTTP fetch is tried at most
\* once, only when it is enabled and every headless attempt failed or gave
\* nothing; the call returns html or None, None exactly when the headless
\* attempts gave nothing and the fallback failed or is disabled.
C29_FetchPageBestEffort ==
    /\ Len(fout.attempts) <= fin.tries
    /\ NoHtml(SubSeq(fout.attempts, 1, Len(fout.attempts) - 1))
    /\ Len(fout.fallbacks) <= 1
    /\ fout.fallbacks # <<>> =>
          /\ fin.requests_fallback
          /\ Len(fout.attempts) = fin.tries
          /\ NoHtml(fout.attempts)
    /\ fpc = "returned" =>
          /\ fout.ret \in {<<"headless html">>, <<"http html">>, None}
          /\ fout.ret = <<"headless html">> <=> ~NoHtml(fout.attempts)
          /\ fout.ret = <<"http html">> =>
                fout.fallbacks = <<<<"http html">>>>
          /\ fout.ret = None =>
                /\ NoHtml(fout.attempts)
                /\ Len(fout.attempts) = fin.tries
                /\ fout.fallbacks = <<None>> \/ ~fin.requests_fallback

\* A call that returned the html of its last attempt after an attempt that
\* raised and one that gave nothing.
C29_Witness ==
    /\ fpc = "returned"
    /\ fin.tries = 3
    /\ fout.attempts = <<"raised", "empty", "html">>
    /\ fout.ret = <<"headless html">>
    /\ fout.fallbacks = <<>>

\* A call whose attempts all failed and whose fallback gave nothing.
C29_WitnessNone ==
    /\ fpc = "returned"
    /\ fin.tries >= 2
    /\ NoHtml(fout.attempts)
    /\ fout.fallbacks = <<None>>
    /\ fout.ret = None

----
\* ------------------------------------------ count_missing_fields alone

MaxSwitches == 1

\* The states of a field the count is about: absent, null, the empty
\* string, white space only.
Absent == <<"<absent>">>
MissingStates == {Absent, None, <<>>, <<" ">>, <<" ", "\n">>}

\* The mapping rec with field f in state v.
SetField(rec, f, v) ==
    IF v = Absent THEN [g \in DOMAIN rec \ {f} |-> rec[g]]
    ELSE [g \in DOMAIN rec \cup {f} |-> IF g = f THEN v ELSE rec[g]]

\* The first n required fields hold filler, every other one is in state st.
CountRecord(n, filler, st) ==
    [f \in {g \in FieldSet : FieldIndex(g) <= n \/ st # Absent} |->
        IF FieldIndex(f) <= n THEN filler ELSE st]

SwitchFields == {"event_name", "venue_city", "organizer_instagram"}

StateOf(rec, f) == IF f \in DOMAIN rec THEN rec[f] ELSE Absent

InitCount ==
    /\ fpc = "call"
    /\ \E n \in 0..Len(REQUIRED_FIELDS), filler \in {<<"x">>, Zero}, st \in MissingStates :
          fin = [parsed |-> CountRecord(n, filler, st), switches |-> 0]
    /\ fout = <<>>
    /\ organizers = {}
    /\ UpsertIdle
    /\ RaceIdle
    /\ JsonIdle
    /\ GptIdle
    /\ SearchIdle
    /\ EinIdle
    /\ ParseIdle
    /\ EnrichIdle
    /\ ScraperIdle
    /\ RunnerIdle

countFrame ==
    <<dbVars, upVars, raceVars, jsonVars, gptVars, searchVars, einVars, parseVars,
      enrichVars, scraperVars, runnerVars>>

CountMissing ==
    /\ fpc = "call"
    /\ LET got == count_missing_fields(PyDict(fin.parsed))
       IN  fout' = [raised |-> got.raised, count |-> got.count, before |-> got.count]
    /\ fpc' = "returned"
    /\ UNCHANGED <<fin, countFrame>>

\* A field in one of the four states is put in another of them and the
\* mapping is counted again.
SwitchAndCount ==
    /\ fpc = "returned"
    /\ fin.switches < MaxSwitches
    /\ \E f \in SwitchFields, st \in MissingStates :
          /\ StateOf(fin.parsed, f) \in MissingStates
          /\ st # StateOf(fin.parsed, f)
          /\ fin' = [parsed |-> SetField(fin.parsed, f, st), switches |-> fin.switches + 1]
          /\ LET got == count_missing_fields(PyDict(fin'.parsed))
             IN  fout' = [raised |-> got.raised, count |-> got.count, before |-> fout.count]
    /\ UNCHANGED <<fpc, countFrame>>

NextCount == CountMissing \/ SwitchAndCount

SpecCount == InitCount /\ [][NextCount]_vars

InMissingState(rec, f) == StateOf(rec, f) \in MissingStates

\* C30: count_missing_fields gives the number of the 27 required fields
\* that are absent, null, the empty string or white space only; it is
\* between 0 and 27, 27 for the empty mapping, and the same after a missing
\* field was put in another of these states.
C30_MissingCount ==
    fpc = "returned" =>
        /\ ~fout.raised
        /\ fout.count = Cardinality({f \in FieldSet : InMissingState(fin.parsed, f)})
        /\ fout.count \in 0..27
        /\ DOMAIN fin.parsed = {} => fout.count = 27
        /\ fout.count = fout.before

\* A mapping with filled fields in which a field holding white space was
\* made absent, or an absent one made empty, and counted again.
C30_Witness ==
    /\ fpc = "returned"
    /\ fin.switches > 0
    /\ fout.count \in 1..26
    /\ \E f \in SwitchFields :
          \/ f \notin DOMAIN fin.parsed /\ \E g \in DOMAIN fin.parsed : fin.parsed[g] = <<" ">>
          \/ f \in DOMAIN fin.parsed /\ fin.parsed[f] = <<>> /\
                 \E g \in FieldSet : g \notin DOMAIN fin.parsed

----
\* ---------------------------------------- fetch_unprocessed_links alone
\* One call over tables of any content the schema allows: raw_link_id of
\* parse_logs is a nullable column (ON DELETE SET NULL), NoId is NULL.

MaxLogRows == 2

QueueLinks == SUBSET (1..3)

QueueLogs ==
    UNION {[1..n -> {LogRow(id, "failed", None) : id \in {NoId, 1, 2}}] : n \in 0..MaxLogRows}

InitQueue ==
    /\ fpc = "call"
    /\ fin \in [links : QueueLinks, logs : QueueLogs, limit : BatchLimits]
    /\ fout = <<>>
    /\ organizers = {}
    /\ UpsertIdle
    /\ RaceIdle
    /\ JsonIdle
    /\ GptIdle
    /\ SearchIdle
    /\ EinIdle
    /\ ParseIdle
    /\ EnrichIdle
    /\ ScraperIdle
    /\ RunnerIdle

FetchUnprocessed ==
    /\ fpc = "call"
    /\ \E rows \in fetch_unprocessed_links(fin.links, fin.logs, fin.limit) :
          fout' = [rows |-> rows]
    /\ fpc' = "returned"
    /\ UNCHANGED deepFrame

NextQueue == FetchUnprocessed

SpecQueue == InitQueue /\ [][NextQueue]_vars

\* The raw links no log entry refers to.
NeverLogged(links, logs) == {id \in links : \A i \in 1..Len(logs) : logs[i].raw_link_id # id}

\* C31: for every content of raw_links and parse_logs, log entries with a
\* null link reference included, fetch_unprocessed_links returns raw links
\* that have no log entry, all of them up to the limit.
C31_LogIsRetryQueue ==
    fpc = "returned" =>
        /\ fout.rows \subseteq NeverLogged(fin.links, fin.logs)
        /\ Cardinality(fout.rows) =
              Min(fin.limit, Cardinality(NeverLogged(fin.links, fin.logs)))

\* The same for logs without a null link reference.
RetryQueueWithoutNull ==
    (fpc = "returned" /\ \A i \in 1..Len(fin.logs) : fin.logs[i].raw_link_id # NoId) =>
        /\ fout.rows \subseteq NeverLogged(fin.links, fin.logs)
        /\ Cardinality(fout.rows) =
              Min(fin.limit, Cardinality(NeverLogged(fin.links, fin.logs)))

----
\* ------------------------------------------- known organizer data

ORGANIZER_ENRICHED == {"ein", "facebook", "instagram", "contact_title"}

\* Every enriched column of a row of before that held a value holds the
\* same value in the row of after with that id.
KnownKept(before, after) ==
    \A r \in before, q \in after :
        r.id = q.id =>
            \A c \in ORGANIZER_ENRICHED : (r[c] # None /\ r[c] # <<>>) => q[c] = r[c]

\* C32: processing an organizer selected because one field is unknown
\* leaves every organizer field that already held a non-empty value (EIN,
\* facebook, instagram, contact_title) unchanged.
C32_KnownFieldsKept ==
    (fpc = "returned" /\ fout.kind = "organizer") => KnownKept(fout.orgs, organizers)

\* The columns that were null may be written: the rows without any known
\* column are free to change, and the other rows of the table are kept.
OtherOrganizersKept ==
    (fpc = "returned" /\ fout.kind = "organizer") =>
        \A r \in fout.orgs : r.id # fout.id => r \in organizers

----
\* ------------------------------------------------- generate_uid alone
\* Two key tuples (name, website) and their uids.

KeyValues == {None, <<>>, <<" ">>, <<"g">>, <<"G">>, <<"a">>, <<"b">>, <<"a", "-", "b">>}

KeyTuples == [1..2 -> KeyValues]

InitUid ==
    /\ fpc = "call"
    /\ fin \in [first : KeyTuples, second : KeyTuples]
    /\ fout = <<>>
    /\ organizers = {}
    /\ UpsertIdle
    /\ RaceIdle
    /\ JsonIdle
    /\ GptIdle
    /\ SearchIdle
    /\ EinIdle
    /\ ParseIdle
    /\ EnrichIdle
    /\ ScraperIdle
    /\ RunnerIdle

GenerateUids ==
    /\ fpc = "call"
    /\ fout' = [first |-> generate_uid(fin.first), second |-> generate_uid(fin.second)]
    /\ fpc' = "returned"
    /\ UNCHANGED deepFrame

NextUid == GenerateUids

SpecUid == InitUid /\ [][NextUid]_vars

\* A key field lower-cased and trimmed; an absent field is the empty one.
NormalKey(v) == IF v = None THEN <<>> ELSE Strip(Lower(PyStr(v)))

NormalTuple(t) == [i \in 1..Len(t) |-> NormalKey(t[i])]

\* C33: two key tuples that differ after normalization get different uids.
C33_UidSeparatesKeys ==
    (fpc = "returned" /\ NormalTuple(fin.first) # NormalTuple(fin.second)) =>
        fout.first # fout.second

\* Two tuples with the same normalized fields get the same uid, when no
\* field is white space only.
SameKeysSameUid ==
    (/\ fpc = "returned"
     /\ NormalTuple(fin.first) = NormalTuple(fin.second)
     /\ \A i \in 1..2 : fin.first[i] # <<" ">> /\ fin.second[i] # <<" ">>) =>
        fout.first = fout.second

----
\* ------------------------------------------- the organizer of an event

\* C34: every stored event references a stored organizer; the event insert
\* of a link is attempted only when the organizer upsert of that link
\* returned an id, and that id is the id of a stored organizer.
C34_EventReferencesOrganizer ==
    /\ \A e \in events : \E o \in organizers : o.id = e.organizer_id
    /\ plast.event_stored =>
          plast.organizer_id # NoId /\ \E o \in organizers : o.id = plast.organizer_id

\* Events are stored, and the last link handled got no organizer id and so
\* no event insert.
C34_Witness ==
    /\ events # {}
    /\ plast.outcome = "saved"
    /\ plast.organizer_id = NoId
    /\ ~plast.event_stored

----
\* ------------------------------------------- log entries per link

EntriesOf(logs, id) == {i \in 1..Len(logs) : logs[i].raw_link_id = id}

\* C35: each handling of a link by process_links appends exactly one parse
\* log entry for it, so that no link has both a failed and a success entry.
C35_OneEntryPerLink ==
    ~plogfailed =>
        \A id \in raw_links :
            /\ Cardinality(EntriesOf(parse_logs, id)) = pfetches[id]
            /\ ~\E i, j \in EntriesOf(parse_logs, id) :
                   parse_logs[i].status = "failed" /\ parse_logs[j].status = "success"

\* On the paths without fallback synthesis and without an exception that
\* leaves the loop, the last link handled got one entry.
OneEntryWithoutFallback ==
    (/\ ~plogfailed
     /\ plast.id # NoId
     /\ plast.outcome # "crashed"
     /\ plast.outcome \in {"fetch_failed", "parse_error"}
            \/ count_missing_fields(PyDict(plast.after)).count < Len(REQUIRED_FIELDS)) =>
        Cardinality(EntriesOf(parse_logs, plast.id)) = 1

----
\* --------------------------------------- records processed in one run
\* Each processing of an organizer appends an entry to the log of the run
\* when the log write succeeds, so two entries of one organizer are two
\* processings of it; xlast is the record the last step processed.

OrganizerEntries(logs, id) == {i \in 1..Len(logs) : logs[i].organizer_id = id}

SameEventAgain ==
    /\ xprocessed' # xprocessed
    /\ xlast.kind = "event"
    /\ xlast'.kind = "event"
    /\ xlast'.id = xlast.id

\* C36: within one enrich_data run no organizer and no event is processed
\* more than once: no organizer gets a second log entry, and no step
\* processes the event the step before it processed.
C36_ProcessedOnce ==
    [][/\ \A o \in organizers' : Cardinality(OrganizerEntries(ein_logs', o.id)) <= 1
       /\ ~SameEventAgain]_vars

----
\* ------------------------------------------- the notions of missing
\* One field of a record holding one value, seen by count_missing_fields,
\* by the merge loop of process_links and by deep_synthesize_fields.

\* missing = [f for f in REQUIRED_FIELDS if not parsed or not parsed.get(f)]
deep_missing(parsed) ==
    {f \in FieldSet : DOMAIN parsed = {} \/ ~Truthy(Get(parsed, f))}

ModelValues == {<<"x">>, <<" ">>, <<>>, None, Zero, FalseV, EmptyList}

OneField(f, v) == [k \in {f} |-> v]

InitMissing ==
    /\ fpc = "call"
    /\ fin \in [field : FieldSet, value : ModelValues]
    /\ fout = <<>>
    /\ organizers = {}
    /\ UpsertIdle
    /\ RaceIdle
    /\ JsonIdle
    /\ GptIdle
    /\ SearchIdle
    /\ EinIdle
    /\ ParseIdle
    /\ EnrichIdle
    /\ ScraperIdle
    /\ RunnerIdle

ClassifyField ==
    /\ fpc = "call"
    /\ LET data == OneField(fin.field, fin.value)
       IN  fout' = [counted |-> count_missing_fields(PyDict(data)).count = Len(REQUIRED_FIELDS),
                    replaceable |-> merge_accepts(data, fin.field, <<"y">>),
                    listed |-> fin.field \in deep_missing(data)]
    /\ fpc' = "returned"
    /\ UNCHANGED deepFrame

NextMissing == ClassifyField

SpecMissing == InitMissing /\ [][NextMissing]_vars

\* C37: for every value the model can return, count_missing_fields counts
\* the field as missing if and only if the merge step would let a
\* supplement value replace it, and if and only if deep_synthesize_fields
\* lists it among the still-missing fields.
C37_OneNotionOfMissing ==
    fpc = "returned" =>
        /\ fout.counted <=> fout.replaceable
        /\ fout.counted <=> fout.listed

\* The three agree on a string with text, on the empty string and on null.
AgreeOnPlainValues ==
    (fpc = "returned" /\ fin.value \in {<<"x">>, <<>>, None}) =>
        /\ fout.counted <=> fout.replaceable
        /\ fout.counted <=> fout.listed

====
